---- MODULE Spec2Model ----
(***************************************************************************)
(* A model of the mail triage-and-delivery engine: the classifier (static  *)
(* rules, judgment service, threshold refinement), the rate/enable         *)
(* governor, the dedup/throttle state store with its three backends, and   *)
(* the orchestrator (run_batch, process_single_event, trigger_notification)*)
(*                                                                         *)
(* Conventions.  A Python string is a sequence of one-character strings,   *)
(* so that lower(), substring search and whitespace removal are computed.  *)
(* An absent (None) or empty string is the empty sequence: the code tests  *)
(* both with plain truthiness.  A score is an integer in hundredths        *)
(* (0.62 is 62).  Time is a count of minutes.                              *)
(***************************************************************************)
EXTENDS Integers, Sequences, FiniteSets, TLC

VARIABLES
    \* ---- settings store (app/services/settings_store.py)
    settings_db,       \* SettingsStore.db is not None
    settings_doc,      \* the document system_settings/general
    settings,          \* SettingsStore.settings: the cached dynamic settings
    settings_fresh,    \* time.time() - last_updated <= cache_ttl
    control_doc,       \* the document system_control/status
    usage_doc,         \* the document daily_usage/<today>
    gov_called,        \* an is_system_enabled call is on record
    gov_reads,         \* which of its three store reads reached the store
    gov_result,        \* what that call returned
    backend,           \* which state store create_state_store / the class built
    now,               \* datetime.utcnow(), in minutes
    processed,         \* processed_ids / the processed_notifications documents
    recent_content,    \* recent_content of the file and in-memory stores
    throttling,        \* the notification_throttling documents: id -> sent_at
    mark_calls,        \* the mark_processed calls so far: arguments -> time of the latest
    rec_at,            \* per content key, when a throttle record was last written
    DRY_RUN,           \* main.DRY_RUN
    snapshots,         \* the email_events documents: message id -> snapshot
    batch_pc,          \* "idle", or "running" while run_batch has workers out
    batch,             \* the response of the latest run_batch
    batch_gov,         \* what is_system_enabled answered when that batch began
    batch_log,         \* of the latest batch: the events submitted, those that raised
    batch_did,         \* what the running batch has done: "fetch", "judge", "deliver", "usage"
    workers,           \* process_single_event in flight: event id -> its position
    results,           \* the results collected so far by the running batch
    sent_ok,           \* (message, target) the delivery client has delivered
    dry_marked,        \* (message, target) marked by the dry-run branch
    runs,              \* how many run_batch and trigger_notification requests so far
    \* ---- classifier (app/core/classifier.py, app/services/llm_service.py)
    spam_file,         \* what Config.load_spam_filter returns
    client_ok,         \* LLMService.client is not None
    last_usage,        \* LLMService.last_usage
    cls_event,         \* the event of the last classify call
    cls_config,        \* the merged filter configuration that call used
    cls_llm,           \* what the judgment service answered in that call
    cls_result,        \* the AnalysisResult classify returned (or None)
    cls_analyze_calls, \* analyze_email invocations made by that call
    cls_api_calls,     \* client.messages.create invocations made by that call
    cls_reuse,         \* the latest reuse of a stored snapshot: the document, the outcome
    \* ---- mute preferences (app/services/learning_store.py)
    user_feedback,     \* the user_feedback documents: (user_id, sender, subject_pattern)
    mute_call,         \* the latest run of the per-target filter: its inputs, its answers
    \* ---- router (app/core/router.py, app/services/routing_store.py)
    ROUTING_SOURCE,    \* Config.ROUTING_SOURCE
    routing_cache,     \* RoutingStore.cache: normalized address -> user ids
    route_call,        \* the latest Router.get_targets call: its inputs, its result
    slack_http,        \* slack_interactive: where the request handler stands
    slack_threads,     \* the threads slack_interactive started, in order
    slack_posts,       \* what reached response_url: <<thread, kind of message>>
    gmail_read,        \* the messages whose UNREAD label was removed
    prior_call,        \* the latest calculate_prior_from_scores call and its outcome
    priors_org,        \* collection priors_org: document id -> prior, samples
    priors_user,       \* collection priors_user: document id -> prior, samples
    prior_lookup,      \* the latest get_org_prior / get_user_prior call and its result
    prior_job,         \* update_all_priors: the senders found, the attempts, the counts
    expire_at,         \* processed_notifications: document id -> its expire_at field
    expiry_check,      \* the latest is_processed call of the expiry runs: when, its answer
    mute_log,          \* the save / delete / should_silence_for_user calls made, in order
    event_docs,        \* email_events as block_notification reads it: message id -> document
    block_call,        \* the latest block-notification request and its response
    later_call,        \* the latest process_single_event since that request
    later_count,       \* how many process_single_event calls the block runs have made
    \* ---- the TTL caches (routing_store.py, settings_store.py), thread by thread
    cache_kind,        \* which store: "routing" (self.cache) or "settings" (self.settings)
    clock,             \* time.time(), in ticks
    source_version,    \* which content the primary store holds
    cache_content,     \* self.cache / self.settings: the content a reader sees
    last_updated,      \* self.last_updated
    lock,              \* self._lock: the caller that holds it, or "free"
    callers,           \* per calling thread: its position, its locals, its answer
    loads,             \* the _load_from_firestore runs so far, in order
    \* ---- processors racing for one (message, target) (main.py, state_store.py)
    race_pc,           \* per processor: where it stands in process_single_event
    race_sent,         \* the deliveries of the pair so far: who, in which batch
    race_marks,        \* the mark_processed calls so far: who, when, how far it got
    race_batch,        \* the batch now running
    \* ---- one instance, batch after batch (app/main.py process_single_event)
    seq_call,          \* the process_single_event of the running batch
    delivery_count,    \* per target, how many times Slack delivered the mail
    suppressed,        \* the targets the stored analysis named "silent"
    seq_batches,       \* how many batches have fetched the mail
    \* ---- the worker threads of a batch (app/main.py, app/services/llm_service.py)
    wk_call,           \* per thread, where its process_single_event stands
    judge_calls,       \* per message id, the judgment calls made so far
    usage_incs,        \* the usages passed to increment_daily_usage in this batch
    wk_batches,        \* how many batches have submitted the events
    \* ---- FileStateStore under the worker threads (app/utils/state_store.py)
    fm_args,           \* per thread, the (message_id, target_id) it marks
    fm_pc,             \* per thread, the statement of mark_processed it is at
    fm_ids,            \* self.state['processed_ids']: message id -> list of targets
    fm_recent,         \* the targets with a recent_content entry
    fm_file            \* processed_ids as last written to the state file

setVars == <<settings_db, settings_doc, settings, settings_fresh>>
govVars == <<control_doc, usage_doc, gov_called, gov_reads, gov_result>>
storeVars == <<backend, now, processed, recent_content, throttling>>
markVars == <<mark_calls, rec_at>>
orchVars == <<DRY_RUN, snapshots, batch_pc, batch, batch_gov, batch_log, batch_did, workers,
              results, runs, sent_ok, dry_marked>>
clsVars == <<spam_file, client_ok, last_usage, cls_event, cls_config, cls_llm, cls_result,
             cls_analyze_calls, cls_api_calls, cls_reuse>>
muteVars == <<user_feedback, mute_call>>
routerVars == <<ROUTING_SOURCE, routing_cache, route_call>>
slackVars == <<slack_http, slack_threads, slack_posts, gmail_read>>
priorVars == <<prior_call>>
learnVars == <<priors_org, priors_user, prior_lookup, prior_job>>
ttlVars == <<expire_at, expiry_check>>
tripVars == <<mute_log>>
blockVars == <<event_docs, block_call, later_call, later_count>>
cacheVars == <<cache_kind, clock, source_version, cache_content, last_updated, lock, callers, loads>>
raceVars == <<race_pc, race_sent, race_marks, race_batch>>
seqVars == <<seq_call, delivery_count, suppressed, seq_batches>>
wkVars == <<wk_call, judge_calls, usage_incs, wk_batches>>
fmVars == <<fm_args, fm_pc, fm_ids, fm_recent, fm_file>>
auxVars == <<muteVars, routerVars, slackVars, priorVars, learnVars, ttlVars, tripVars, blockVars, cacheVars, raceVars, seqVars, wkVars, fmVars>>

vars == <<setVars, govVars, storeVars, markVars, orchVars, clsVars, auxVars>>

None == "None"

(***************************************************************************)
(* Strings                                                                 *)
(***************************************************************************)

\* str.lower() on the characters the model uses
LowerChar(c) ==
    CASE c = "A" -> "a"
      [] c = "B" -> "b"
      [] c = "C" -> "c"
      [] c = "D" -> "d"
      [] c = "E" -> "e"
      [] c = "F" -> "f"
      [] c = "G" -> "g"
      [] c = "H" -> "h"
      [] c = "I" -> "i"
      [] c = "J" -> "j"
      [] c = "K" -> "k"
      [] c = "L" -> "l"
      [] c = "M" -> "m"
      [] c = "N" -> "n"
      [] c = "O" -> "o"
      [] c = "P" -> "p"
      [] c = "Q" -> "q"
      [] c = "R" -> "r"
      [] c = "S" -> "s"
      [] c = "T" -> "t"
      [] c = "U" -> "u"
      [] c = "V" -> "v"
      [] c = "W" -> "w"
      [] c = "X" -> "x"
      [] c = "Y" -> "y"
      [] c = "Z" -> "z"
      [] OTHER   -> c

Lower(s) == [i \in 1..Len(s) |-> LowerChar(s[i])]

\* Python's `d in s` for strings: d occurs as a contiguous substring of s
\* (the empty string occurs in every string)
IsSubstr(d, s) ==
    \E i \in 0..(Len(s) - Len(d)) : SubSeq(s, i + 1, i + Len(d)) = d

\* dict.get(key, default)
DictGet(d, k, default) == IF k \in DOMAIN d THEN d[k] ELSE default

\* any(p in text for p in patterns), patterns a list
AnyIn(patterns, text) == \E i \in 1..Len(patterns) : IsSubstr(patterns[i], text)

\* next(p for p in patterns if p in text): the first match in list order
FirstIn(patterns, text) ==
    LET i == CHOOSE k \in 1..Len(patterns) :
                 /\ IsSubstr(patterns[k], text)
                 /\ \A j \in 1..(k - 1) : ~IsSubstr(patterns[j], text)
    IN  patterns[i]

(***************************************************************************)
(* Classifier: app/core/classifier.py and app/services/llm_service.py      *)
(***************************************************************************)

\* Config.SCORE_THRESHOLD_NOTIFY = 0.50, in hundredths
SCORE_THRESHOLD_NOTIFY == 50

NOTIFY == "notify"
SILENT == "silent"
RULE == "rule"
LLM == "llm"

EmptyDict == [k \in {} |-> <<>>]

\* delivery targets: a Slack user id (U...) and a channel id (C...)
Targets == {"U1", "C1"}

\* ImportanceCategory / AnalysisResult (app/models.py).  reason is a record
\* naming the kind of reason and the text the reason quotes.
AnalysisResult(score, category, reasonKind, reasonText, summary, source, overrides) ==
    [score |-> score, category |-> category,
     reason |-> [kind |-> reasonKind, text |-> reasonText],
     summary |-> summary, source |-> source, user_overrides |-> overrides]

NoResult == AnalysisResult(0, "none", "none", <<>>, None, "none", EmptyDict)

\* pydantic: score: float = Field(..., ge=0.0, le=1.0)
ScoreValid(score) == score >= 0 /\ score <= 100

\* The spam-filter file (config/spam_filter.json) as Config.load_spam_filter
\* returns it: the default when the file is missing, or its content.
DefaultSpamFile == ("blacklist_domains" :> <<>>) @@ ("keywords" :> <<>>)
PopulatedSpamFile ==
    ("blacklist_domains" :> << <<"b">> >>) @@
    ("whitelist_domains" :> << <<"w">> >>) @@
    ("spam_keywords" :> << <<"a", "d">> >>)
SpamFiles == {DefaultSpamFile, PopulatedSpamFile}

\* Documents the dynamic settings (system_settings/general) may hold
SettingsDocs ==
    { EmptyDict,
      "score_threshold_notify" :> 0,
      ("blacklist_domains" :> << <<"n">>, <<"w">> >>) @@ ("score_threshold_notify" :> 70),
      ("spam_keywords" :> <<>>) @@ ("whitelist_domains" :> << <<"W">>, <<"w">> >>) }

\* Senders and subjects of the mail events the model draws
Senders == { <<"u", "@", "n">>, <<"u", "@", "b">>, <<"U", "@", "W">>, <<"u", "@", "w", "b">> }
Subjects == { <<>>, <<"h", "i">>, <<"h", " ", "i">>, <<"A", "d", " ", "h", "i">> }

\* Classifier._get_filter_config: the dynamic value wins per key
GetFilterConfig(dyn, file) ==
    [blacklist_domains |-> DictGet(dyn, "blacklist_domains", DictGet(file, "blacklist_domains", <<>>)),
     whitelist_domains |-> DictGet(dyn, "whitelist_domains", DictGet(file, "whitelist_domains", <<>>)),
     spam_keywords |-> DictGet(dyn, "spam_keywords", DictGet(file, "spam_keywords", <<>>)),
     urgent_keywords |-> DictGet(dyn, "urgent_keywords", DictGet(file, "urgent_keywords", <<>>)),
     score_threshold_notify |-> DictGet(dyn, "score_threshold_notify", SCORE_THRESHOLD_NOTIFY)]

NoConfig == GetFilterConfig(EmptyDict, DefaultSpamFile)

\* A variant of _apply_rules that tests the whitelist before the blacklist
\* and the spam keywords
ApplyRulesWhitelistFirst(event, config) ==
    LET subject == Lower(event.subject)
        sender == Lower(event.sender)
    IN  IF AnyIn(config.whitelist_domains, sender)
        THEN [fired |-> TRUE,
              result |-> AnalysisResult(100, NOTIFY, "whitelist", sender, None, RULE, EmptyDict)]
        ELSE IF AnyIn(config.blacklist_domains, sender)
        THEN [fired |-> TRUE,
              result |-> AnalysisResult(0, SILENT, "blacklist",
                                        FirstIn(config.blacklist_domains, sender), None, RULE, EmptyDict)]
        ELSE IF AnyIn(config.spam_keywords, subject)
        THEN [fired |-> TRUE,
              result |-> AnalysisResult(0, SILENT, "spam",
                                        FirstIn(config.spam_keywords, subject), None, RULE, EmptyDict)]
        ELSE [fired |-> FALSE, result |-> NoResult]

\* Classifier._apply_rules
ApplyRules(event, config) ==
    LET subject == Lower(event.subject)
        sender == Lower(event.sender)
    IN  IF AnyIn(config.blacklist_domains, sender)
        THEN [fired |-> TRUE,
              result |-> AnalysisResult(0, SILENT, "blacklist",
                                        FirstIn(config.blacklist_domains, sender), None, RULE, EmptyDict)]
        ELSE IF AnyIn(config.spam_keywords, subject)
        THEN [fired |-> TRUE,
              result |-> AnalysisResult(0, SILENT, "spam",
                                        FirstIn(config.spam_keywords, subject), None, RULE, EmptyDict)]
        ELSE IF AnyIn(config.whitelist_domains, sender)
        THEN [fired |-> TRUE,
              result |-> AnalysisResult(100, NOTIFY, "whitelist", sender, None, RULE, EmptyDict)]
        ELSE [fired |-> FALSE, result |-> NoResult]

\* What the judgment service does in one call: the transport fails, the
\* text is no JSON, or the text parses to an object with these fields.
\* score_kind "absent": no score field; "bad": a score float() rejects.
\* reason "absent": no reason field; "null": reason is null; "empty": "".
RawScores == {-1, 0, 49, 50, 62, 100, 101}
OverrideMaps == { EmptyDict, "U1" :> "silent", "U1" :> "notify" }
LLMOutcome(kind, score_kind, score, category, reason, summary, overrides, usage) ==
    [kind |-> kind, score_kind |-> score_kind, score |-> score, category |-> category,
     reason |-> reason, summary |-> summary, overrides |-> overrides, usage |-> usage]
NoOutcome == LLMOutcome("none", "absent", 0, "silent", "absent", None, EmptyDict, "none")
LLMOutcomes ==
    { LLMOutcome("transport_error", "absent", 0, "silent", "absent", None, EmptyDict, "none"),
      LLMOutcome("bad_json", "absent", 0, "silent", "absent", None, EmptyDict, "none"),
      LLMOutcome("parsed", "bad", 0, "notify", "given", "sum", EmptyDict, "usage"),
      LLMOutcome("parsed", "absent", 0, "notify", "given", "sum", EmptyDict, "usage"),
      LLMOutcome("parsed", "num", 62, "notify", "null", "sum", EmptyDict, "usage"),
      LLMOutcome("parsed", "num", 49, "critical", "empty", None, EmptyDict, "usage"),
      LLMOutcome("parsed", "num", 62, "other", "given", "sum", EmptyDict, "none") }
    \cup { LLMOutcome("parsed", "num", sc, cat, "given", "sum", EmptyDict, "usage") :
             sc \in RawScores, cat \in {"notify", "silent"} }
    \cup { LLMOutcome("parsed", "num", sc, "silent", "absent", None, ov, "usage") :
             sc \in {49, 62}, ov \in OverrideMaps }

\* the failure results of LLMService.analyze_email
LLMUnavailable == AnalysisResult(0, SILENT, "llm_unavailable", <<>>, None, LLM, EmptyDict)
LLMError == AnalysisResult(0, SILENT, "llm_error", <<>>, None, LLM, EmptyDict)

\* A variant of analyze_email whose result takes any score
AnalyzeEmailAnyScore(client, out) ==
    IF ~client
    THEN [result |-> LLMUnavailable, api_calls |-> 0, usage |-> "none"]
    ELSE IF out.kind # "parsed" \/ out.score_kind = "bad"
    THEN [result |-> LLMError, api_calls |-> 1, usage |-> "none"]
    ELSE LET score == IF out.score_kind = "absent" THEN 0 ELSE out.score
             category == IF out.category \in {"critical", "important", "normal", "notify"}
                         THEN NOTIFY ELSE SILENT
             reasonKind == IF out.reason = "absent" THEN "unstated" ELSE out.reason
         IN  IF out.reason # "null"
             THEN [result |-> AnalysisResult(score, category, reasonKind, <<>>,
                                             out.summary, LLM, out.overrides),
                   api_calls |-> 1, usage |-> out.usage]
             ELSE [result |-> LLMError, api_calls |-> 1, usage |-> out.usage]

\* LLMService.analyze_email: the AnalysisResult, the number of calls made to
\* the service, and the value left in last_usage
AnalyzeEmail(client, out) ==
    IF ~client
    THEN [result |-> LLMUnavailable, api_calls |-> 0, usage |-> "none"]
    ELSE IF out.kind # "parsed" \/ out.score_kind = "bad"
    THEN [result |-> LLMError, api_calls |-> 1, usage |-> "none"]
    ELSE LET score == IF out.score_kind = "absent" THEN 0 ELSE out.score
             category == IF out.category \in {"critical", "important", "normal", "notify"}
                         THEN NOTIFY ELSE SILENT
             reasonKind == IF out.reason = "absent" THEN "unstated" ELSE out.reason
         IN  IF ScoreValid(score) /\ out.reason # "null"
             THEN [result |-> AnalysisResult(score, category, reasonKind, <<>>,
                                             out.summary, LLM, out.overrides),
                   api_calls |-> 1, usage |-> out.usage]
             ELSE [result |-> LLMError, api_calls |-> 1, usage |-> out.usage]

\* A variant of _apply_thresholds that notifies only above the threshold
ApplyThresholdsStrict(result, config) ==
    LET threshold == config.score_threshold_notify
    IN  IF result.score > threshold
        THEN [result EXCEPT !.category = NOTIFY]
        ELSE [result EXCEPT !.category = SILENT]

\* Classifier._apply_thresholds
ApplyThresholds(result, config) ==
    LET threshold == config.score_threshold_notify
    IN  IF result.score >= threshold
        THEN [result EXCEPT !.category = NOTIFY]
        ELSE IF result.reason.kind \in {"empty", "unstated"}
             THEN [result EXCEPT !.category = SILENT,
                                 !.reason = [kind |-> "below_threshold", text |-> <<>>]]
             ELSE [result EXCEPT !.category = SILENT]

\* A variant of classify that asks the judgment service for a summary
\* whatever rule fired
ClassifyAlwaysSummarise(event, config, client, out) ==
    LET rule == ApplyRules(event, config)
        llm == AnalyzeEmail(client, out)
    IN  IF rule.fired
        THEN [result |-> [rule.result EXCEPT !.summary = llm.result.summary],
              analyze_calls |-> 1, api_calls |-> llm.api_calls,
              usage_set |-> TRUE, usage |-> llm.usage]
        ELSE [result |-> ApplyThresholds(llm.result, config),
              analyze_calls |-> 1, api_calls |-> llm.api_calls,
              usage_set |-> TRUE, usage |-> llm.usage]

\* A variant of classify whose whitelist result takes the category of the
\* judgment service
ClassifyWhitelistJudged(event, config, client, out) ==
    LET rule == ApplyRules(event, config)
        llm == AnalyzeEmail(client, out)
    IN  IF rule.fired
        THEN IF rule.result.category = NOTIFY
             THEN [result |-> [rule.result EXCEPT !.summary = llm.result.summary,
                                                  !.category = llm.result.category],
                   analyze_calls |-> 1, api_calls |-> llm.api_calls,
                   usage_set |-> TRUE, usage |-> llm.usage]
             ELSE [result |-> rule.result, analyze_calls |-> 0, api_calls |-> 0,
                   usage_set |-> FALSE, usage |-> "none"]
        ELSE [result |-> ApplyThresholds(llm.result, config),
              analyze_calls |-> 1, api_calls |-> llm.api_calls,
              usage_set |-> TRUE, usage |-> llm.usage]

\* Classifier.classify: the result, the calls made, and whether and to what
\* LLMService.last_usage was set
Classify(event, config, client, out) ==
    LET rule == ApplyRules(event, config)
        llm == AnalyzeEmail(client, out)
    IN  IF rule.fired
        THEN IF rule.result.category = NOTIFY
             THEN [result |-> [rule.result EXCEPT !.summary = llm.result.summary],
                   analyze_calls |-> 1, api_calls |-> llm.api_calls,
                   usage_set |-> TRUE, usage |-> llm.usage]
             ELSE [result |-> rule.result, analyze_calls |-> 0, api_calls |-> 0,
                   usage_set |-> FALSE, usage |-> "none"]
        ELSE [result |-> ApplyThresholds(llm.result, config),
              analyze_calls |-> 1, api_calls |-> llm.api_calls,
              usage_set |-> TRUE, usage |-> llm.usage]

(***************************************************************************)
(* Rate / enable governor: app/services/settings_store.py                  *)
(* Cost is counted in whole US dollars.                                    *)
(***************************************************************************)

\* the ceilings get_system_status falls back to: 1000 calls, 5.0 USD
DEFAULT_LIMIT_CALLS == 1000
DEFAULT_LIMIT_COST_USD == 5

\* the counters a day may already have reached when the model starts
NearCallLimit == DEFAULT_LIMIT_CALLS - 1
NearCostLimit == DEFAULT_LIMIT_COST_USD - 1

\* how far the model lets the daily counters grow past their start
MaxUsageSteps == 3

DefaultStatus ==
    ("enabled" :> TRUE) @@ ("daily_limit_calls" :> DEFAULT_LIMIT_CALLS)
    @@ ("daily_limit_cost_usd" :> DEFAULT_LIMIT_COST_USD)

NoDoc == [exists |-> FALSE, data |-> EmptyDict]

NoUsage == [exists |-> FALSE, calls |-> 0, cost_usd |-> 0]

\* SettingsStore.get_system_status; ok: the read reaches the store
GetSystemStatus(db, doc, ok) ==
    IF db /\ ok /\ doc.exists
    THEN ("enabled" :> DictGet(doc.data, "enabled", TRUE))
         @@ ("pause_reason" :> DictGet(doc.data, "pause_reason", None))
         @@ ("daily_limit_calls" :> DictGet(doc.data, "daily_limit_calls", DEFAULT_LIMIT_CALLS))
         @@ ("daily_limit_cost_usd" :> DictGet(doc.data, "daily_limit_cost_usd", DEFAULT_LIMIT_COST_USD))
    ELSE DefaultStatus

\* A variant of get_daily_usage that answers the stored counters whether or
\* not the read reached the store
GetDailyUsageAlwaysStored(db, doc, ok) ==
    IF doc.exists
    THEN [calls |-> doc.calls, cost_usd |-> doc.cost_usd]
    ELSE [calls |-> 0, cost_usd |-> 0]

\* SettingsStore.get_daily_usage
GetDailyUsage(db, doc, ok) ==
    IF db /\ ok /\ doc.exists
    THEN [calls |-> doc.calls, cost_usd |-> doc.cost_usd]
    ELSE [calls |-> 0, cost_usd |-> 0]

GovReason(kind, text, have, limit) ==
    [kind |-> kind, text |-> text, have |-> have, limit |-> limit]

\* A variant of check_daily_limit_exceeded that tests the cost ceiling first
CheckDailyLimitExceededCostFirst(db, cdoc, udoc, ok2, ok3) ==
    LET status == GetSystemStatus(db, cdoc, ok2)
        usage == GetDailyUsage(db, udoc, ok3)
        limit_calls == DictGet(status, "daily_limit_calls", DEFAULT_LIMIT_CALLS)
        limit_cost == DictGet(status, "daily_limit_cost_usd", DEFAULT_LIMIT_COST_USD)
    IN  IF usage.cost_usd >= limit_cost
        THEN [exceeded |-> TRUE, reason |-> GovReason("cost", "", usage.cost_usd, limit_cost)]
        ELSE IF usage.calls >= limit_calls
        THEN [exceeded |-> TRUE, reason |-> GovReason("calls", "", usage.calls, limit_calls)]
        ELSE [exceeded |-> FALSE, reason |-> GovReason("", "", 0, 0)]

\* SettingsStore.check_daily_limit_exceeded
CheckDailyLimitExceeded(db, cdoc, udoc, ok2, ok3) ==
    LET status == GetSystemStatus(db, cdoc, ok2)
        usage == GetDailyUsage(db, udoc, ok3)
        limit_calls == DictGet(status, "daily_limit_calls", DEFAULT_LIMIT_CALLS)
        limit_cost == DictGet(status, "daily_limit_cost_usd", DEFAULT_LIMIT_COST_USD)
    IN  IF usage.calls >= limit_calls
        THEN [exceeded |-> TRUE, reason |-> GovReason("calls", "", usage.calls, limit_calls)]
        ELSE IF usage.cost_usd >= limit_cost
        THEN [exceeded |-> TRUE, reason |-> GovReason("cost", "", usage.cost_usd, limit_cost)]
        ELSE [exceeded |-> FALSE, reason |-> GovReason("", "", 0, 0)]

\* SettingsStore.is_system_enabled; ok1..ok3: its three store reads (the
\* control document, the control document again, today's usage) reach the
\* store
IsSystemEnabled(db, cdoc, udoc, ok1, ok2, ok3) ==
    LET status == GetSystemStatus(db, cdoc, ok1)
    IN  IF ~DictGet(status, "enabled", TRUE)
        THEN [enabled |-> FALSE,
              reason |-> GovReason("pause", DictGet(status, "pause_reason", "paused_default"), 0, 0)]
        ELSE LET lim == CheckDailyLimitExceeded(db, cdoc, udoc, ok2, ok3)
             IN  IF lim.exceeded
                 THEN [enabled |-> FALSE, reason |-> lim.reason]
                 ELSE [enabled |-> TRUE, reason |-> GovReason("ok", "ok", 0, 0)]

NoGovResult == [enabled |-> TRUE, reason |-> GovReason("none", "", 0, 0)]

GovInit ==
    /\ control_doc \in { NoDoc,
                         [exists |-> TRUE, data |-> "last_batch_processed" :> 0] }
    /\ usage_doc \in { NoUsage,
                       [exists |-> TRUE, calls |-> NearCallLimit, cost_usd |-> 0],
                       [exists |-> TRUE, calls |-> DEFAULT_LIMIT_CALLS, cost_usd |-> 0],
                       [exists |-> TRUE, calls |-> 0, cost_usd |-> NearCostLimit] }
    /\ gov_called = FALSE
    /\ gov_reads = <<TRUE, TRUE, TRUE>>
    /\ gov_result = NoGovResult

\* dict.update / Firestore set(..., merge=True)
Merge(data, upd) == upd @@ data

\* SettingsStore.set_system_enabled(enabled, user, reason); reason "" is
\* no reason given.  A call without a store, or whose write fails, changes
\* nothing.
SetSystemEnabled(enabled, reason) ==
    /\ settings_db
    /\ control_doc' =
         [exists |-> TRUE,
          data |-> Merge(control_doc.data,
                         ("enabled" :> enabled) @@
                         ("pause_reason" :>
                              IF enabled THEN None
                              ELSE IF reason # "" THEN reason ELSE "manual pause"))]
    /\ UNCHANGED usage_doc

\* SettingsStore.set_daily_limits(limit_calls, limit_cost_usd); 0 stands for
\* an argument left None
SetDailyLimits(limit_calls, limit_cost) ==
    /\ settings_db
    /\ limit_calls # 0 \/ limit_cost # 0
    /\ control_doc' =
         [exists |-> TRUE,
          data |-> Merge(control_doc.data,
                         (IF limit_calls # 0 THEN "daily_limit_calls" :> limit_calls ELSE EmptyDict)
                         @@ (IF limit_cost # 0 THEN "daily_limit_cost_usd" :> limit_cost ELSE EmptyDict))]
    /\ UNCHANGED usage_doc

\* SettingsStore.increment_daily_usage(calls, cost_usd, ...): an atomic
\* increment that creates the day's document when it is missing
IncrementDailyUsage(calls, cost) ==
    /\ settings_db
    /\ usage_doc' = [exists |-> TRUE, calls |-> usage_doc.calls + calls,
                     cost_usd |-> usage_doc.cost_usd + cost]
    /\ UNCHANGED control_doc

\* midnight (KST): today's key changes, and no document exists for it yet
DayRolls ==
    /\ usage_doc.exists
    /\ usage_doc' = NoUsage
    /\ UNCHANGED control_doc

\* a caller asks is_system_enabled
GovCheck(ok1, ok2, ok3) ==
    /\ ~gov_called
    /\ gov_called' = TRUE
    /\ gov_reads' = <<ok1, ok2, ok3>>
    /\ gov_result' = IsSystemEnabled(settings_db, control_doc, usage_doc, ok1, ok2, ok3)
    /\ UNCHANGED <<control_doc, usage_doc>>

\* the caller has taken the answer
GovReturn ==
    /\ gov_called
    /\ gov_called' = FALSE
    /\ gov_reads' = <<TRUE, TRUE, TRUE>>
    /\ gov_result' = NoGovResult
    /\ UNCHANGED <<control_doc, usage_doc>>

UsageWithinBounds ==
    /\ usage_doc.calls < NearCallLimit + MaxUsageSteps
    /\ usage_doc.cost_usd < NearCostLimit + MaxUsageSteps
    /\ (usage_doc.calls < NearCallLimit => usage_doc.calls < MaxUsageSteps)
    /\ (usage_doc.cost_usd < NearCostLimit => usage_doc.cost_usd < MaxUsageSteps)

GovUnchangedCall == UNCHANGED <<gov_called, gov_reads, gov_result>>


(***************************************************************************)
(* Dedup / throttle state store: app/utils/state_store.py                  *)
(* Timestamps are minutes; the ISO strings the file and in-memory stores   *)
(* compare order the same way as the instants they stand for.              *)
(***************************************************************************)

\* window_minutes: int = 10
WINDOW_MINUTES == 10

\* "Keep only last 100 entries per target"
RECENT_CONTENT_CAP == 100

\* the clock advances half a window at a time, MaxTicks times
TickMinutes == WINDOW_MINUTES \div 2
MaxTicks == 2

Backends == {"file", "firestore", "memory"}

Whitespace == {" ", "\t", "\n", "\r"}

IsSpace(c) == c \in Whitespace

\* "".join(subject.split()) if subject else ""
NormalizeSubject(subject) == SelectSeq(subject, LAMBDA c : ~IsSpace(c))

\* f"{sender}:{subject}"
ContentKey(sender, subject) == sender \o <<":">> \o subject

\* FirestoreStateStore._make_doc_id: the digest of f"{message_id}:{target_id}"
MakeDocId(message_id, target_id) == <<message_id, target_id>>

\* FirestoreStateStore._make_throttling_id: the digest of
\* f"{sender}:{normalized_subject}:{target_id}"
MakeThrottlingId(sender, subject, target_id) ==
    <<ContentKey(sender, NormalizeSubject(subject)), target_id>>

EmptyStore ==
    [processed |-> {}, recent_content |-> [t \in Targets |-> <<>>], throttling |-> EmptyDict]

TheStore == [processed |-> processed, recent_content |-> recent_content, throttling |-> throttling]

\* lst[-n:]
LastN(lst, n) == IF Len(lst) <= n THEN lst ELSE SubSeq(lst, Len(lst) - n + 1, Len(lst))

\* is_processed(message_id, target_id); ok: the Firestore read reaches the
\* store (a failed read answers False)
IsProcessed(be, st, message_id, target_id, ok) ==
    IF be = "firestore"
    THEN ok /\ MakeDocId(message_id, target_id) \in st.processed
    ELSE MakeDocId(message_id, target_id) \in st.processed

\* A variant of is_duplicate_by_content that still answers True when exactly
\* window_minutes have passed
IsDuplicateByContentInclusive(be, st, sender, subject, target_id, window_minutes, t_now, ok) ==
    IF be = "firestore"
    THEN LET id == MakeThrottlingId(sender, subject, target_id)
         IN  /\ ok
             /\ id \in DOMAIN st.throttling
             /\ t_now - st.throttling[id] <= window_minutes
    ELSE \E i \in 1..Len(st.recent_content[target_id]) :
            LET entry == st.recent_content[target_id][i]
            IN  /\ entry.content_key = ContentKey(sender, subject)
                /\ entry.sent_at >= t_now - window_minutes

\* is_duplicate_by_content(sender, subject, target_id, window_minutes)
IsDuplicateByContent(be, st, sender, subject, target_id, window_minutes, t_now, ok) ==
    IF be = "firestore"
    THEN LET id == MakeThrottlingId(sender, subject, target_id)
         IN  /\ ok
             /\ id \in DOMAIN st.throttling
             /\ t_now - st.throttling[id] < window_minutes
    ELSE \E i \in 1..Len(st.recent_content[target_id]) :
            LET entry == st.recent_content[target_id][i]
            IN  /\ entry.content_key = ContentKey(sender, subject)
                /\ entry.sent_at > t_now - window_minutes

\* the entry mark_processed appends to recent_content[target_id]
ContentEntry(sender, subject, t_now) ==
    [content_key |-> ContentKey(sender, subject), sent_at |-> t_now]

\* A variant of mark_processed whose file store writes the throttle entry
\* on every call, not only on the first call for (message_id, target_id)
MarkProcessedAlwaysAppend(be, st, message_id, target_id, sender, subject, t_now, reached) ==
    LET id == MakeDocId(message_id, target_id)
        tracked == sender # <<>> /\ subject # <<>>
        appended == [st.recent_content EXCEPT
                        ![target_id] = Append(@, ContentEntry(sender, subject, t_now))]
    IN  IF be = "firestore"
        THEN [processed |-> IF reached >= 1 THEN st.processed \cup {id} ELSE st.processed,
              recent_content |-> st.recent_content,
              throttling |-> IF tracked /\ reached >= 2
                             THEN (MakeThrottlingId(sender, subject, target_id) :> t_now)
                                  @@ st.throttling
                             ELSE st.throttling]
        ELSE [processed |-> st.processed \cup {id},
              recent_content |-> IF tracked THEN appended ELSE st.recent_content,
              throttling |-> st.throttling]

\* mark_processed(message_id, target_id, sender, subject) at time t_now.
\* reached: how many of the Firestore writes (the processed document, then
\* the throttling document) reach the store before one fails; the error is
\* swallowed.
MarkProcessed(be, st, message_id, target_id, sender, subject, t_now, reached) ==
    LET id == MakeDocId(message_id, target_id)
        tracked == sender # <<>> /\ subject # <<>>
        appended == [st.recent_content EXCEPT
                        ![target_id] = Append(@, ContentEntry(sender, subject, t_now))]
        capped == [st.recent_content EXCEPT
                        ![target_id] = LastN(Append(@, ContentEntry(sender, subject, t_now)),
                                             RECENT_CONTENT_CAP)]
    IN  IF be = "file"
        THEN IF id \in st.processed
             THEN st
             ELSE [processed |-> st.processed \cup {id},
                   recent_content |-> IF tracked THEN capped ELSE st.recent_content,
                   throttling |-> st.throttling]
        ELSE IF be = "memory"
        THEN [processed |-> st.processed \cup {id},
              recent_content |-> IF tracked THEN appended ELSE st.recent_content,
              throttling |-> st.throttling]
        ELSE [processed |-> IF reached >= 1 THEN st.processed \cup {id} ELSE st.processed,
              recent_content |-> st.recent_content,
              throttling |-> IF tracked /\ reached >= 2
                             THEN (MakeThrottlingId(sender, subject, target_id) :> t_now)
                                  @@ st.throttling
                             ELSE st.throttling]

(***************************************************************************)
(* Orchestrator: app/main.py                                               *)
(***************************************************************************)

OrchEvent(id, message_id, owner, sender, subject) ==
    [id |-> id, message_id |-> message_id, owner |-> owner, sender |-> sender,
     subject |-> subject]

\* one message, unread in two monitored mailboxes
E1 == OrchEvent("e1", "m1", "a", <<"u", "@", "n">>, <<"h", "i">>)
E2 == OrchEvent("e2", "m1", "b", <<"u", "@", "n">>, <<"h", "i">>)
OrchEvents == {E1, E2}

EventOf(id) == CHOOSE e \in OrchEvents : e.id = id

\* Router.get_targets: mailbox "a" notifies the user U1, mailbox "b" the
\* user U1 and the channel C1
Route(event) == IF event.owner = "a" THEN {"U1"} ELSE {"U1", "C1"}

\* target_type == "user"
UserTargets == {"U1"}

\* what the judgment service answers in the orchestrator's runs
OrchOutcomes ==
    { LLMOutcome("parsed", "num", 62, "notify", "given", "sum", EmptyDict, "usage"),
      LLMOutcome("parsed", "num", 49, "silent", "absent", None, "U1" :> "notify", "usage"),
      LLMOutcome("transport_error", "absent", 0, "silent", "absent", None, EmptyDict, "none") }

\* an email_events document as get_email_event returns it; scored: the
\* document holds a number in llm_score_raw
StoredEvent(final_category, scored, llm_score_raw) ==
    [final_category |-> final_category, scored |-> scored, llm_score_raw |-> llm_score_raw]

\* the document save_email_event_snapshot writes
Snapshot(final_category, llm_score_raw) == StoredEvent(final_category, TRUE, llm_score_raw)

\* process_single_event, the cached branch: AnalysisResult(...) raises a
\* validation error on a stored score outside [0,1]
CachedRaises(snap) == snap.scored /\ ~ScoreValid(snap.llm_score_raw)

\* A variant of the cached branch that takes the stored category as it is
CachedAnalysisUnchecked(snap) ==
    AnalysisResult(IF snap.scored THEN snap.llm_score_raw ELSE 0,
                   snap.final_category, "cached", <<>>, None, RULE, EmptyDict)

\* process_single_event, the result reused from a stored snapshot
CachedAnalysis(snap) ==
    AnalysisResult(IF snap.scored THEN snap.llm_score_raw ELSE 0,
                   IF snap.final_category \in {NOTIFY, SILENT} THEN snap.final_category ELSE SILENT,
                   "cached", <<>>, None, RULE, EmptyDict)

\* A variant of the per-target filter that goes by the category alone
FinalTargetsCategoryOnly(targets, silenced, category, user_overrides) ==
    { t \in targets : ~(t \in UserTargets /\ t \in silenced) /\ category = NOTIFY }

\* A variant of the per-target filter in which an override "notify" is
\* honoured before the mute rule is looked at
FinalTargetsOverrideFirst(targets, silenced, category, user_overrides) ==
    LET ov == user_overrides
    IN  { t \in targets :
            IF t \in DOMAIN ov /\ ov[t] = "notify" THEN TRUE
            ELSE /\ ~(t \in UserTargets /\ t \in silenced)
                 /\ IF t \in DOMAIN ov /\ ov[t] = "silent" THEN FALSE
                    ELSE category = NOTIFY }

\* process_single_event, the per-target filter: the mute rule, then the
\* override of the judgment service, then the category
FinalTargets(targets, silenced, category, user_overrides) ==
    LET ov == user_overrides
    IN  { t \in targets :
            /\ ~(t \in UserTargets /\ t \in silenced)
            /\ IF t \in DOMAIN ov /\ ov[t] = "silent" THEN FALSE
               ELSE IF t \in DOMAIN ov /\ ov[t] = "notify" THEN TRUE
               ELSE category = NOTIFY }

\* the targets for which is_processed answers True; okp: the targets whose
\* read reaches the store
SeenProcessed(be, st, event, final_targets, okp) ==
    { t \in final_targets : IsProcessed(be, st, event.message_id, t, t \in okp) }

\* A variant of the dedup filter that looks at the content throttle only
NewTargetsContentOnly(be, st, event, final_targets, t_now, okp, okd) ==
    { t \in final_targets :
        ~IsDuplicateByContent(be, st, event.sender, event.subject, t, WINDOW_MINUTES,
                              t_now, t \in okd) }

\* process_single_event, the dedup filter (new_targets)
NewTargets(be, st, event, final_targets, t_now, okp, okd) ==
    { t \in final_targets :
        /\ ~IsProcessed(be, st, event.message_id, t, t \in okp)
        /\ ~IsDuplicateByContent(be, st, event.sender, event.subject, t, WINDOW_MINUTES,
                                 t_now, t \in okd) }

\* for t in targets: state_store.mark_processed(message_id, t, sender, subject)
RECURSIVE MarkAll(_, _, _, _, _, _, _, _)
MarkAll(be, st, message_id, targets, sender, subject, t_now, reached) ==
    IF targets = {} THEN st
    ELSE LET t == CHOOSE x \in targets : TRUE
         IN  MarkAll(be,
                     MarkProcessed(be, st, message_id, t, sender, subject, t_now, reached[t]),
                     message_id, targets \ {t}, sender, subject, t_now, reached)

\* A variant of send_notification that reports success when any target
\* was reached
SendNotificationAnySuccess(targets, failing) == \E t \in targets : t \notin failing

\* SlackService.send_notification: True when no target failed
SendNotification(targets, failing) == targets \cap failing = {}

\* A variant of run_batch that goes on whatever the governor says
BatchProceedsAlways(gov) == TRUE

\* run_batch: "if not enabled: return ... skipped"
BatchProceeds(gov) == gov.enabled

BatchResponse(status, n_processed, n_sent, n_ignored) ==
    [status |-> status, processed |-> n_processed, sent |-> n_sent, ignored |-> n_ignored]

NoResults == [processed |-> 0, sent |-> 0, ignored |-> 0]

\* results.append(ProcessedResult(..., analysis, notification_sent))
AddResult(res, category, notification_sent) ==
    [processed |-> res.processed + 1,
     sent |-> res.sent + (IF notification_sent THEN 1 ELSE 0),
     ignored |-> res.ignored + (IF category = SILENT THEN 1 ELSE 0)]

\* where a process_single_event stands: "start"; "classified", with the
\* analysis (its category and user_overrides), whether it came from a stored
\* snapshot, and llm_usage; "filtered", with final_targets; "deliver", with
\* new_targets and the targets is_processed answered True for
Worker(pc, category, overrides, existing, usage, targets, saw) ==
    [pc |-> pc, category |-> category, overrides |-> overrides, existing |-> existing,
     usage |-> usage, targets |-> targets, saw |-> saw]

NewWorker == Worker("start", SILENT, EmptyDict, FALSE, "none", {}, {})

(***************************************************************************)
(* The state store as a state machine                                      *)
(***************************************************************************)

\* how many entries the model lets one target's recent_content list hold
MaxEntries == 2

StoreMessages == {"m1", "m2"}
StoreSenders == { <<"u", "@", "n">> }
StoreSubjects == { <<>>, <<"h", "i">>, <<"h", " ", "i">> }

\* the window_minutes a caller may pass
Windows == {TickMinutes, WINDOW_MINUTES}

StoreKeys == StoreSenders \X StoreSubjects \X Targets

MarkArgs(message_id, target_id, sender, subject) ==
    [message_id |-> message_id, target_id |-> target_id, sender |-> sender, subject |-> subject]

\* the calls the model makes: a message, a second message with the same
\* content, the same subject spaced differently, and a message without a
\* subject to another target
MarkCalls ==
    { MarkArgs("m1", "U1", <<"u", "@", "n">>, <<"h", "i">>),
      MarkArgs("m2", "U1", <<"u", "@", "n">>, <<"h", "i">>),
      MarkArgs("m2", "U1", <<"u", "@", "n">>, <<"h", " ", "i">>),
      MarkArgs("m1", "C1", <<"u", "@", "n">>, <<>>) }

\* two (sender, subject, target) triples the backend keeps under one key
SameKey(be, k1, k2) ==
    /\ k1[3] = k2[3]
    /\ IF be = "firestore"
       THEN MakeThrottlingId(k1[1], k1[2], k1[3]) = MakeThrottlingId(k2[1], k2[2], k2[3])
       ELSE ContentKey(k1[1], k1[2]) = ContentKey(k2[1], k2[2])

\* the call writes a throttle record: sender and subject are both given,
\* the write reaches the store, and the file store has not marked
\* (message_id, target_id) before
WritesRecord(be, st, message_id, target_id, sender, subject, reached) ==
    /\ sender # <<>> /\ subject # <<>>
    /\ (be = "file" => MakeDocId(message_id, target_id) \notin st.processed)
    /\ (be = "firestore" => reached >= 2)

StoreInit ==
    /\ backend \in Backends
    /\ now = 0
    /\ processed = {}
    /\ recent_content = [t \in Targets |-> <<>>]
    /\ throttling = EmptyDict
    /\ mark_calls = EmptyDict
    /\ rec_at = EmptyDict

StoreQuiet == backend = "file"

\* the bookkeeping of a mark_processed call
NoteMark(message_id, target_id, sender, subject, reached) ==
    LET key == <<sender, subject, target_id>>
        same == IF WritesRecord(backend, TheStore, message_id, target_id, sender, subject, reached)
                THEN {k \in StoreKeys : SameKey(backend, k, key)} \cup {key}
                ELSE {}
    IN  /\ mark_calls' = (MarkArgs(message_id, target_id, sender, subject) :> now) @@ mark_calls
        /\ rec_at' = [k \in same |-> now] @@ rec_at

\* state_store.mark_processed(message_id, target_id, sender, subject)
StoreMark(message_id, target_id, sender, subject, reached) ==
    LET st == MarkProcessed(backend, TheStore, message_id, target_id, sender, subject,
                            now, reached)
    IN  /\ Len(recent_content[target_id]) < MaxEntries
        /\ processed' = st.processed
        /\ recent_content' = st.recent_content
        /\ throttling' = st.throttling
        /\ NoteMark(message_id, target_id, sender, subject, reached)
        /\ UNCHANGED <<backend, now>>

\* time passes
Tick ==
    /\ now < MaxTicks * TickMinutes
    /\ now' = now + TickMinutes
    /\ UNCHANGED <<backend, processed, recent_content, throttling, markVars, auxVars>>

\* how many of its writes a mark_processed call may get through
Reaches == IF backend = "firestore" THEN 0..2 ELSE {2}

(***************************************************************************)
(* The classifier as a state machine                                       *)
(***************************************************************************)

MailEvent(message_id, sender, subject) ==
    [message_id |-> message_id, sender |-> sender, subject |-> subject]
NoEvent == MailEvent("none", <<>>, <<>>)


\* SettingsStore.get_all_settings: _refresh_if_needed, then the cache.  A
\* stale cache is reloaded from the document; with no client, a failed read
\* or a missing document the cache keeps its content.  load_ok: the read
\* reaches the store.
GetAllSettings(cache, fresh, db, doc, load_ok) ==
    IF fresh THEN cache
    ELSE IF db /\ load_ok /\ doc.exists THEN doc.data
    ELSE cache

\* what a reuse of a stored snapshot left: the document read, whether the
\* construction of the result raised, the result
Reuse(doc, raised, result) == [doc |-> doc, raised |-> raised, result |-> result]
NoReuse == Reuse(StoredEvent("none", FALSE, 0), FALSE, NoResult)

\* the email_events documents a reuse may find: the ones this program
\* writes, and documents of other writers (no score, a category of an older
\* scheme, a score out of range)
StoredEvents ==
    { Snapshot(c, sc) : c \in {NOTIFY, SILENT}, sc \in {0, 62, 100} }
    \cup { StoredEvent(NOTIFY, FALSE, 0), StoredEvent("critical", TRUE, 62),
           StoredEvent("absent", TRUE, 62), StoredEvent(NOTIFY, TRUE, 101) }

SetInit ==
    /\ settings_db \in BOOLEAN
    /\ settings_doc = NoDoc
    /\ settings = EmptyDict
    /\ settings_fresh = FALSE

ClsInit ==
    /\ spam_file \in SpamFiles
    /\ client_ok \in BOOLEAN
    /\ last_usage = "none"
    /\ cls_event = NoEvent
    /\ cls_config = NoConfig
    /\ cls_llm = NoOutcome
    /\ cls_result = NoResult
    /\ cls_analyze_calls = 0
    /\ cls_api_calls = 0
    /\ cls_reuse = NoReuse

\* no classify call and no reuse is on record
ClsIdle == cls_event = NoEvent /\ cls_reuse = NoReuse

\* an administrator writes the settings document
AdminWritesSettings(doc) ==
    /\ settings_doc # [exists |-> TRUE, data |-> doc]
    /\ settings_doc' = [exists |-> TRUE, data |-> doc]
    /\ UNCHANGED <<settings_db, settings, settings_fresh>>

\* cache_ttl seconds pass since the last refresh
SettingsTtlElapses ==
    /\ settings_fresh
    /\ settings_fresh' = FALSE
    /\ UNCHANGED <<settings_db, settings_doc, settings>>

\* classifier.classify(event, user_preferences_map), the settings refresh
\* of _get_filter_config included
ClassifyCall(event, out, load_ok) ==
    LET dyn == GetAllSettings(settings, settings_fresh, settings_db, settings_doc, load_ok)
        config == GetFilterConfig(dyn, spam_file)
        r == Classify(event, config, client_ok, out)
    IN  /\ ClsIdle
        /\ settings' = dyn
        /\ settings_fresh' = TRUE
        /\ UNCHANGED <<settings_db, settings_doc>>
        /\ last_usage' = IF r.usage_set THEN r.usage ELSE last_usage
        /\ cls_event' = event
        /\ cls_config' = config
        /\ cls_llm' = IF r.analyze_calls > 0 THEN out ELSE NoOutcome
        /\ cls_result' = r.result
        /\ cls_analyze_calls' = r.analyze_calls
        /\ cls_api_calls' = r.api_calls
        /\ UNCHANGED <<spam_file, client_ok, cls_reuse>>

\* the caller has taken the result: the record of the call is dropped
ClassifyReturn ==
    /\ cls_event # NoEvent
    /\ cls_event' = NoEvent
    /\ cls_config' = NoConfig
    /\ cls_llm' = NoOutcome
    /\ cls_result' = NoResult
    /\ cls_analyze_calls' = 0
    /\ cls_api_calls' = 0
    /\ UNCHANGED <<spam_file, client_ok, last_usage, cls_reuse>>

\* process_single_event finds the stored document doc for its event and
\* builds the analysis from it
ReuseCached(doc) ==
    /\ cls_reuse = NoReuse
    /\ cls_reuse' = IF CachedRaises(doc) THEN Reuse(doc, TRUE, NoResult)
                                          ELSE Reuse(doc, FALSE, CachedAnalysis(doc))
    /\ UNCHANGED <<spam_file, client_ok, last_usage, cls_event, cls_config, cls_llm,
                   cls_result, cls_analyze_calls, cls_api_calls>>

\* the caller has taken that analysis (or the exception)
ReuseReturn ==
    /\ cls_reuse # NoReuse
    /\ cls_reuse' = NoReuse
    /\ UNCHANGED <<spam_file, client_ok, last_usage, cls_event, cls_config, cls_llm,
                   cls_result, cls_analyze_calls, cls_api_calls>>

ClsEvents == { MailEvent("m1", s, j) : s \in Senders, j \in Subjects \ {<<"h", " ", "i">>} }

(***************************************************************************)
(* The orchestrator as a state machine                                     *)
(***************************************************************************)

\* how many events one batch fetches at most
MaxBatchEvents == 2

\* how many run_batch requests and how many trigger_notification requests
\* the model follows
MaxBatches == 1
MaxTriggers == 1

NoWorkers == [id \in {} |-> NewWorker]

\* future_to_event of a batch: the events submitted to the executor, and
\* those whose future.result() raised
BatchLog(submitted, raised) == [submitted |-> submitted, raised |-> raised]

NoBatchLog == BatchLog({}, {})

OrchInit ==
    /\ DRY_RUN \in BOOLEAN
    /\ snapshots = EmptyDict
    /\ batch_pc = "idle"
    /\ batch = BatchResponse("none", 0, 0, 0)
    /\ batch_gov = NoGovResult
    /\ batch_log = NoBatchLog
    /\ batch_did = {}
    /\ workers = NoWorkers
    /\ results = NoResults
    /\ sent_ok = {}
    /\ dry_marked = {}
    /\ runs = [batches |-> 0, triggers |-> 0]

OrchQuiet == DRY_RUN = FALSE

SetStore(st) ==
    /\ processed' = st.processed
    /\ recent_content' = st.recent_content
    /\ throttling' = st.throttling

\* run_batch, from the request to the submission of the events (or to the
\* early return).  ok1..ok3: the governor's reads reach the store;
\* fetch_ok: Config.validate and the mail fetch do not raise; evs: the unread
\* events fetched.
RunBatch(ok1, ok2, ok3, fetch_ok, evs) ==
    LET gov == IsSystemEnabled(settings_db, control_doc, usage_doc, ok1, ok2, ok3)
    IN  /\ batch_pc = "idle"
        /\ runs.batches < MaxBatches
        /\ runs' = [runs EXCEPT !.batches = @ + 1]
        /\ batch_gov' = gov
        /\ batch_log' = BatchLog(IF BatchProceeds(gov) /\ fetch_ok
                                 THEN {e.id : e \in evs} ELSE {}, {})
        /\ results' = NoResults
        /\ IF ~BatchProceeds(gov)
           THEN /\ batch' = BatchResponse("skipped", 0, 0, 0)
                /\ batch_did' = {}
                /\ UNCHANGED <<batch_pc, workers>>
           ELSE IF ~fetch_ok
           THEN /\ batch' = BatchResponse("error", 0, 0, 0)
                /\ batch_did' = {}
                /\ UNCHANGED <<batch_pc, workers>>
           ELSE /\ batch' = BatchResponse("running", 0, 0, 0)
                /\ batch_did' = {"fetch"}
                /\ batch_pc' = "running"
                /\ workers' = [id \in {e.id : e \in evs} |-> NewWorker]
        /\ UNCHANGED <<DRY_RUN, snapshots, sent_ok, dry_marked>>
        /\ UNCHANGED <<setVars, govVars, storeVars, markVars, auxVars, clsVars>>

\* what a finished process_single_event leaves behind
Finish(id, category, notification_sent) ==
    /\ workers' = [i \in DOMAIN workers \ {id} |-> workers[i]]
    /\ results' = AddResult(results, category, notification_sent)

OrchUnchangedRest ==
    /\ UNCHANGED <<DRY_RUN, batch_pc, batch, batch_gov, batch_log, sent_ok, dry_marked, runs>>
    /\ UNCHANGED <<settings_db, settings_doc, control_doc, gov_called, gov_reads, gov_result>>
    /\ UNCHANGED <<storeVars, markVars, auxVars, spam_file, client_ok, cls_event, cls_config,
                   cls_llm, cls_result, cls_analyze_calls, cls_api_calls, cls_reuse>>

\* process_single_event, get_email_event finds a snapshot: the stored
\* result is reused and the judgment service is not called
ProcessCached(id) ==
    LET m == EventOf(id).message_id
        analysis == CachedAnalysis(snapshots[m])
    IN  /\ id \in DOMAIN workers
        /\ workers[id].pc = "start"
        /\ m \in DOMAIN snapshots
        /\ workers' = [workers EXCEPT ![id] =
                          Worker("classified", analysis.category, analysis.user_overrides,
                                 TRUE, "none", {}, {})]
        /\ UNCHANGED <<settings, settings_fresh, last_usage, snapshots, usage_doc, batch_did,
                       results>>
        /\ OrchUnchangedRest

\* process_single_event, get_email_event returns None (no snapshot, or the
\* read fails): classifier.classify and get_last_llm_usage.  out: the
\* judgment service's answer.
ProcessNew(id, out) ==
    LET event == EventOf(id)
        dyn == GetAllSettings(settings, settings_fresh, settings_db, settings_doc, TRUE)
        c == Classify(event, GetFilterConfig(dyn, spam_file), client_ok, out)
        usage_now == IF c.usage_set THEN c.usage ELSE last_usage
    IN  /\ id \in DOMAIN workers
        /\ workers[id].pc = "start"
        /\ settings' = dyn
        /\ settings_fresh' = TRUE
        /\ last_usage' = usage_now
        /\ batch_did' = batch_did \cup (IF c.api_calls > 0 THEN {"judge"} ELSE {})
        /\ workers' = [workers EXCEPT ![id] =
                          Worker("classified", c.result.category, c.result.user_overrides,
                                 FALSE, usage_now, {}, {})]
        /\ UNCHANGED <<snapshots, usage_doc, results>>
        /\ OrchUnchangedRest

\* process_single_event, the per-target filter, the snapshot and the usage
\* increment.  silenced: the users should_silence_for_user mutes; save_ok,
\* inc_ok: the snapshot write and the increment reach the store; cost: the
\* cost of the call.  is_new is always True (no mark is made for the target
\* ""), so should_save is "not existing_event".
ProcessFilter(id, silenced, save_ok, inc_ok, cost) ==
    LET event == EventOf(id)
        m == event.message_id
        w == workers[id]
        final_targets == FinalTargets(Route(event), silenced, w.category, w.overrides)
        counted == ~w.existing /\ w.usage # "none" /\ settings_db /\ inc_ok
    IN  /\ id \in DOMAIN workers
        /\ w.pc = "classified"
        /\ snapshots' = IF ~w.existing /\ save_ok
                        THEN (m :> Snapshot(w.category, 0)) @@ snapshots
                        ELSE snapshots
        /\ usage_doc' = IF counted
                        THEN [exists |-> TRUE, calls |-> usage_doc.calls + 1,
                              cost_usd |-> usage_doc.cost_usd + cost]
                        ELSE usage_doc
        /\ batch_did' = batch_did \cup (IF counted THEN {"usage"} ELSE {})
        /\ IF final_targets = {}
           THEN Finish(id, w.category, FALSE)
           ELSE /\ workers' = [workers EXCEPT ![id] =
                                 Worker("filtered", w.category, EmptyDict, w.existing, "none",
                                        final_targets, {})]
                /\ UNCHANGED results
        /\ UNCHANGED <<settings, settings_fresh, last_usage>>
        /\ OrchUnchangedRest

\* process_single_event, the dedup filter.  okp, okd: the targets whose
\* is_processed / is_duplicate_by_content read reaches the store.
ProcessDedup(id, okp, okd) ==
    LET event == EventOf(id)
        w == workers[id]
        new_targets == NewTargets(backend, TheStore, event, w.targets, now, okp, okd)
        saw == SeenProcessed(backend, TheStore, event, w.targets, okp)
    IN  /\ id \in DOMAIN workers
        /\ w.pc = "filtered"
        /\ IF new_targets = {}
           THEN Finish(id, w.category, FALSE)
           ELSE /\ workers' = [workers EXCEPT ![id] =
                                 Worker("deliver", w.category, EmptyDict, w.existing, "none",
                                        new_targets, saw)]
                /\ UNCHANGED results
        /\ UNCHANGED <<settings, settings_fresh, last_usage, snapshots, usage_doc, batch_did>>
        /\ OrchUnchangedRest

\* process_single_event from the dry-run test to its return.  failing: the
\* targets Slack refuses; reached: per target, how many of mark_processed's
\* writes reach the store.
ProcessDeliver(id, failing, reached) ==
    LET event == EventOf(id)
        w == workers[id]
        marked == MarkAll(backend, TheStore, event.message_id, w.targets, event.sender,
                          event.subject, now, reached)
        pairs == {<<event.message_id, t>> : t \in w.targets}
    IN  /\ id \in DOMAIN workers
        /\ w.pc = "deliver"
        /\ IF DRY_RUN
           THEN /\ SetStore(marked)
                /\ dry_marked' = dry_marked \cup pairs
                /\ Finish(id, w.category, TRUE)
                /\ UNCHANGED <<sent_ok, batch_did>>
           ELSE /\ batch_did' = batch_did \cup {"deliver"}
                /\ sent_ok' = sent_ok \cup {<<event.message_id, t>> : t \in w.targets \ failing}
                /\ IF SendNotification(w.targets, failing)
                   THEN SetStore(marked) /\ Finish(id, w.category, TRUE)
                   ELSE /\ Finish(id, w.category, FALSE)
                        /\ UNCHANGED <<processed, recent_content, throttling>>
                /\ UNCHANGED dry_marked
        /\ UNCHANGED <<DRY_RUN, snapshots, batch_pc, batch, batch_gov, batch_log, runs>>
        /\ UNCHANGED <<backend, now, setVars, govVars, markVars, auxVars, clsVars>>

\* a run_batch whose first failing future ends the loop over the futures
ProcessRaiseAbortsBatch(id) ==
    /\ id \in DOMAIN workers
    /\ workers' = NoWorkers
    /\ batch_log' = [batch_log EXCEPT !.raised = @ \cup {id}]
    /\ UNCHANGED <<DRY_RUN, snapshots, batch_pc, batch, batch_gov, batch_did, results, runs,
                   sent_ok, dry_marked>>
    /\ UNCHANGED <<setVars, govVars, storeVars, markVars, auxVars, clsVars>>

\* process_single_event raises (a stored llm_score_raw outside [0, 1] makes
\* AnalysisResult refuse the cached analysis; user_overrides that is not a
\* dict makes the membership test raise; a store or Slack call raises):
\* future.result() re-raises in run_batch, whose handler logs and goes on to
\* the next completed future without appending a result.
ProcessRaise(id) ==
    /\ id \in DOMAIN workers
    /\ workers' = [i \in DOMAIN workers \ {id} |-> workers[i]]
    /\ batch_log' = [batch_log EXCEPT !.raised = @ \cup {id}]
    /\ UNCHANGED <<DRY_RUN, snapshots, batch_pc, batch, batch_gov, batch_did, results, runs,
                   sent_ok, dry_marked>>
    /\ UNCHANGED <<setVars, govVars, storeVars, markVars, auxVars, clsVars>>

\* run_batch, once every future has completed: the counts, then
\* update_last_batch_info.  ok: that write reaches the store.
BatchFinish(ok) ==
    /\ batch_pc = "running"
    /\ DOMAIN workers = {}
    /\ batch_pc' = "idle"
    /\ batch' = BatchResponse("success", results.processed, results.sent, results.ignored)
    /\ results' = NoResults
    /\ batch_did' = {}
    /\ control_doc' = IF settings_db /\ ok
                      THEN [exists |-> TRUE,
                            data |-> Merge(control_doc.data,
                                           "last_batch_processed" :> results.processed)]
                      ELSE control_doc
    /\ UNCHANGED <<DRY_RUN, snapshots, batch_gov, batch_log, workers, sent_ok, dry_marked,
                 runs>>
    /\ UNCHANGED <<setVars, usage_doc, gov_called, gov_reads, gov_result, storeVars,
                   markVars, auxVars, clsVars>>

\* trigger_notification(email_id, target_ids) with a stored event: the send,
\* the update of the snapshot, the marks.  upd_ok: the update does not raise.
TriggerNotification(email_id, target_ids, failing, upd_ok, reached) ==
    LET event == CHOOSE e \in OrchEvents : e.message_id = email_id
        marked == MarkAll(backend, TheStore, email_id, target_ids, event.sender,
                          event.subject, now, reached)
        sent == SendNotification(target_ids, failing)
    IN  /\ email_id \in DOMAIN snapshots
        /\ target_ids # {}
        /\ runs.triggers < MaxTriggers
        /\ runs' = [runs EXCEPT !.triggers = @ + 1]
        /\ sent_ok' = sent_ok \cup {<<email_id, t>> : t \in target_ids \ failing}
        /\ IF sent /\ upd_ok
           THEN /\ snapshots' = [snapshots EXCEPT ![email_id].final_category = NOTIFY]
                /\ SetStore(marked)
           ELSE UNCHANGED <<snapshots, processed, recent_content, throttling>>
        /\ UNCHANGED <<DRY_RUN, batch_pc, batch, batch_gov, batch_log, batch_did, workers,
                       results, dry_marked>>
        /\ UNCHANGED <<backend, now, setVars, govVars, markVars, auxVars, clsVars>>

\* per target, how many of mark_processed's writes may reach the store
ReachMaps(targets) == [targets -> Reaches]

\* the reads of a dedup filter that reach the store: all of them on the file
\* store, any of them on Firestore
ReadSets(targets) == IF backend = "firestore" THEN SUBSET targets ELSE {targets}

(***************************************************************************)
(* Mute preferences: app/services/learning_store.py                        *)
(***************************************************************************)

\* A character outside ASCII is written as its code point ("U+B2D8"); a
\* string is the sequence of its characters.

SetMin(S) == CHOOSE x \in S : \A y \in S : x <= y

SetMax(S) == CHOOSE x \in S : \A y \in S : x >= y

\* how many leading characters of s belong to the character class
RunLen(s, class) ==
    LET stop == {i \in 1..Len(s) : s[i] \notin class}
    IN  IF stop = {} THEN Len(s) ELSE SetMin(stop) - 1

\* s[n:]
Drop(s, n) == SubSeq(s, n + 1, Len(s))

\* str.startswith
StartsWith(s, p) == Len(s) >= Len(p) /\ SubSeq(s, 1, Len(p)) = p

\* str.strip()
Strip(s) ==
    LET keep == {i \in 1..Len(s) : ~IsSpace(s[i])}
    IN  IF keep = {} THEN <<>> ELSE SubSeq(s, SetMin(keep), SetMax(keep))

\* set(s.split()): the maximal runs of non-whitespace characters
SplitSet(s) ==
    { SubSeq(s, p[1], p[2]) :
        p \in { q \in (1..Len(s)) \X (1..Len(s)) :
                  /\ q[1] <= q[2]
                  /\ \A k \in q[1]..q[2] : ~IsSpace(s[k])
                  /\ (q[1] = 1 \/ IsSpace(s[q[1] - 1]))
                  /\ (q[2] = Len(s) \/ IsSpace(s[q[2] + 1])) } }

\* \d
Digits == {"0", "1", "2", "3", "4", "5", "6", "7", "8", "9"}

IsDigit(c) == c \in Digits

\* [a-zA-Z0-9-]
DomainChars ==
    Digits \cup {"-"} \cup
    {"a", "b", "c", "d", "e", "f", "g", "h", "i", "j", "k", "l", "m",
     "n", "o", "p", "q", "r", "s", "t", "u", "v", "w", "x", "y", "z",
     "A", "B", "C", "D", "E", "F", "G", "H", "I", "J", "K", "L", "M",
     "N", "O", "P", "Q", "R", "S", "T", "U", "V", "W", "X", "Y", "Z"}

\* the Hangul syllables of the patterns, the labels and the subjects
HangulChars ==
    { "U+AC04", "U+AC10", "U+ACB0", "U+ACE0", "U+ACF5", "U+AD6C", "U+AE30", "U+AE40",
      "U+B0B4", "U+B274", "U+B2D8", "U+B3C4", "U+B808", "U+B85C", "U+B8CC", "U+B9AC",
      "U+B9BC", "U+B9C8", "U+B9CC", "U+BA54", "U+BA74", "U+BAA8", "U+BC18", "U+BCF4",
      "U+C0B0", "U+C11C", "U+C124", "U+C158", "U+C2A4", "U+C2E0", "U+C2E4", "U+C548",
      "U+C54C", "U+C5F0", "U+C644", "U+C6A9", "U+C6D0", "U+C6D4", "U+C774", "U+C778",
      "U+C77C", "U+C7A5", "U+C811", "U+C815", "U+C81C", "U+C8FC", "U+C9C0", "U+CC44",
      "U+CCAD", "U+D130", "U+D2B8", "U+D305", "U+D328", "U+D3EC", "U+D504", "U+D55C",
      "U+D560", "U+D638" }

\* the syllables the expressions name: nim, wol, il
NIM == "U+B2D8"

WOL == "U+C6D4"

IL == "U+C77C"

\* the label of a mail whose subject gives no pattern
GENERAL_MAIL == <<"U+C77C", "U+BC18", " ", "U+BA54", "U+C77C">>

\* ^(\[.+?\]|Re:|RE:|Fwd:|FW:) : group(1), the empty string when no match
PrefixGroup(original) ==
    LET close == {j \in 3..Len(original) : original[j] = "]"}
    IN  IF /\ Len(original) >= 1
           /\ original[1] = "["
           /\ close # {}
           /\ \A k \in 2..(SetMin(close) - 1) : original[k] # "\n"
        THEN SubSeq(original, 1, SetMin(close))
        ELSE IF StartsWith(original, <<"R", "e", ":">>) THEN <<"R", "e", ":">>
        ELSE IF StartsWith(original, <<"R", "E", ":">>) THEN <<"R", "E", ":">>
        ELSE IF StartsWith(original, <<"F", "w", "d", ":">>) THEN <<"F", "w", "d", ":">>
        ELSE IF StartsWith(original, <<"F", "W", ":">>) THEN <<"F", "W", ":">>
        ELSE <<>>

\* the patterns list of extract_email_type_pattern: r'.*A.*B.*' as the
\* fragments A, B, and the label
KnownPatterns ==
    << [frags |-> <<<<"U+B2D8", "U+C774">>, <<"U+C9C0", "U+C6D0">>>>,
        label |-> <<"U+CC44", "U+C6A9", " ", "U+C9C0", "U+C6D0", " ", "U+C54C", "U+B9BC">>],
       [frags |-> <<<<"U+C9C0", "U+C6D0">>, <<"U+ACF5", "U+ACE0">>>>,
        label |-> <<"U+CC44", "U+C6A9", " ", "U+C9C0", "U+C6D0", " ", "U+C54C", "U+B9BC">>],
       [frags |-> <<<<"U+BA74", "U+C811">>, <<"U+C77C", "U+C815">>>>,
        label |-> <<"U+BA74", "U+C811", " ", "U+C77C", "U+C815", " ", "U+C548", "U+B0B4">>],
       [frags |-> <<<<"U+CC44", "U+C6A9">>, <<"U+B9C8", "U+AC10">>>>,
        label |-> <<"U+CC44", "U+C6A9", " ", "U+B9C8", "U+AC10", " ", "U+C548", "U+B0B4">>],
       [frags |-> <<<<"U+B3C4", "U+BA54", "U+C778">>, <<"U+AE30", "U+AC04">>, <<"U+C5F0", "U+C7A5">>>>,
        label |-> <<"U+B3C4", "U+BA54", "U+C778", " ", "U+AE30", "U+AC04", "U+C5F0", "U+C7A5", " ", "U+C548", "U+B0B4">>],
       [frags |-> <<<<"U+B3C4", "U+BA54", "U+C778">>, <<"U+B9CC", "U+B8CC">>>>,
        label |-> <<"U+B3C4", "U+BA54", "U+C778", " ", "U+B9CC", "U+B8CC", " ", "U+C548", "U+B0B4">>],
       [frags |-> <<<<"U+D638", "U+C2A4", "U+D305">>, <<"U+C5F0", "U+C7A5">>>>,
        label |-> <<"U+D638", "U+C2A4", "U+D305", " ", "U+C5F0", "U+C7A5", " ", "U+C548", "U+B0B4">>],
       [frags |-> <<<<"U+ACB0", "U+C81C">>, <<"U+C2E4", "U+D328">>>>,
        label |-> <<"U+ACB0", "U+C81C", " ", "U+C2E4", "U+D328", " ", "U+C548", "U+B0B4">>],
       [frags |-> <<<<"U+ACB0", "U+C81C">>, <<"U+C644", "U+B8CC">>>>,
        label |-> <<"U+ACB0", "U+C81C", " ", "U+C644", "U+B8CC", " ", "U+C548", "U+B0B4">>],
       [frags |-> <<<<"U+C815", "U+C0B0">>, <<"U+C2E0", "U+CCAD">>>>,
        label |-> <<"U+C815", "U+C0B0", " ", "U+C2E0", "U+CCAD">>],
       [frags |-> <<<<"U+CCAD", "U+AD6C", "U+C11C">>>>,
        label |-> <<"U+CCAD", "U+AD6C", "U+C11C">>],
       [frags |-> <<<<"U+C778", "U+BCF4", "U+C774", "U+C2A4">>>>,
        label |-> <<"U+C778", "U+BCF4", "U+C774", "U+C2A4">>],
       [frags |-> <<<<"U+C77C", "U+C77C">>, <<"U+B9AC", "U+D3EC", "U+D2B8">>>>,
        label |-> <<"U+C77C", "U+C77C", " ", "U+B9AC", "U+D3EC", "U+D2B8">>],
       [frags |-> <<<<"U+C8FC", "U+AC04">>, <<"U+B9AC", "U+D3EC", "U+D2B8">>>>,
        label |-> <<"U+C8FC", "U+AC04", " ", "U+B9AC", "U+D3EC", "U+D2B8">>],
       [frags |-> <<<<"U+C6D4", "U+AC04">>, <<"U+B9AC", "U+D3EC", "U+D2B8">>>>,
        label |-> <<"U+C6D4", "U+AC04", " ", "U+B9AC", "U+D3EC", "U+D2B8">>],
       [frags |-> <<<<"U+C54C", "U+B9BC">>, <<"U+C124", "U+C815">>>>,
        label |-> <<"U+C54C", "U+B9BC", " ", "U+C124", "U+C815">>],
       [frags |-> <<<<"U+B274", "U+C2A4", "U+B808", "U+D130">>>>,
        label |-> <<"U+B274", "U+C2A4", "U+B808", "U+D130">>],
       [frags |-> <<<<"n", "e", "w", "s", "l", "e", "t", "t", "e", "r">>>>,
        label |-> <<"U+B274", "U+C2A4", "U+B808", "U+D130">>],
       [frags |-> <<<<"U+D504", "U+B85C", "U+BAA8", "U+C158">>>>,
        label |-> <<"U+D504", "U+B85C", "U+BAA8", "U+C158">>],
       [frags |-> <<<<"U+D560", "U+C778">>>>,
        label |-> <<"U+D504", "U+B85C", "U+BAA8", "U+C158">>] >>

\* re.match(r'.*A.*B.*', text): the fragments occur in this order, one after
\* the other
RECURSIVE InOrder(_, _)
InOrder(frags, text) ==
    IF frags = <<>> THEN TRUE
    ELSE \E i \in 1..(Len(text) - Len(Head(frags)) + 1) :
            /\ SubSeq(text, i, i + Len(Head(frags)) - 1) = Head(frags)
            /\ InOrder(Tail(frags), Drop(text, i + Len(Head(frags)) - 1))

\* '.' does not match a newline: a match from the start stays in the first line
FirstLine(s) ==
    LET nl == {i \in 1..Len(s) : s[i] = "\n"}
    IN  IF nl = {} THEN s ELSE SubSeq(s, 1, SetMin(nl) - 1)

\* the label of the first known pattern that matches rest_lower, or <<>>
KnownLabel(rest) ==
    LET hits == {i \in 1..Len(KnownPatterns) :
                    InOrder(KnownPatterns[i].frags, FirstLine(Lower(rest)))}
    IN  IF hits = {} THEN <<>> ELSE KnownPatterns[SetMin(hits)].label

\* [U+AC00-U+D7A3]{2,4}\s*<nim>
NameMatch(t) ==
    LET h == RunLen(t, HangulChars)
        ok == {n \in 2..4 :
                 /\ n <= h
                 /\ LET r == Drop(t, n)
                        w == RunLen(r, Whitespace)
                    IN  Len(r) > w /\ r[w + 1] = NIM}
    IN  IF ok = {} THEN 0
        ELSE SetMax(ok) + RunLen(Drop(t, SetMax(ok)), Whitespace) + 1

\* (co\.kr|com|net|org|kr|biz), in the order the alternatives are tried
DomainSuffixes ==
    << <<"c", "o", ".", "k", "r">>, <<"c", "o", "m">>, <<"n", "e", "t">>,
       <<"o", "r", "g">>, <<"k", "r">>, <<"b", "i", "z">> >>

\* [a-zA-Z0-9-]+\.(co\.kr|com|net|org|kr|biz)
DomainMatch(t) ==
    LET k == RunLen(t, DomainChars)
        hits == {i \in 1..Len(DomainSuffixes) :
                    StartsWith(Drop(t, k), <<".">> \o DomainSuffixes[i])}
    IN  IF k = 0 \/ hits = {} THEN 0 ELSE k + 1 + Len(DomainSuffixes[SetMin(hits)])

\* \d{4}[-/]\d{2}[-/]\d{2}
DateMatch(t) ==
    IF /\ Len(t) >= 10
       /\ \A i \in {1, 2, 3, 4, 6, 7, 9, 10} : IsDigit(t[i])
       /\ \A i \in {5, 8} : t[i] \in {"-", "/"}
    THEN 10 ELSE 0

\* \d{1,2}<wol>\s*\d{1,2}<il>
MonthDayMatch(t) ==
    LET ok == {p \in {1, 2} \X {1, 2} :
                 /\ Len(t) > p[1]
                 /\ \A i \in 1..p[1] : IsDigit(t[i])
                 /\ t[p[1] + 1] = WOL
                 /\ LET r == Drop(t, p[1] + 1)
                        d == Drop(r, RunLen(r, Whitespace))
                    IN  /\ Len(d) > p[2]
                        /\ \A i \in 1..p[2] : IsDigit(d[i])
                        /\ d[p[2] + 1] = IL}
        p == CHOOSE q \in ok : TRUE
    IN  IF ok = {} THEN 0
        ELSE p[1] + 1 + RunLen(Drop(t, p[1] + 1), Whitespace) + p[2] + 1

\* \d{3,}
NumberMatch(t) == IF RunLen(t, Digits) >= 3 THEN RunLen(t, Digits) ELSE 0

\* \s+
SpaceMatch(t) == RunLen(t, Whitespace)

\* the length of the match of one of the expressions above at the start of
\* t, 0 when it does not match there (none of them matches the empty string)
MatchLen(expr, t) ==
    CASE expr = "name"     -> NameMatch(t)
      [] expr = "domain"   -> DomainMatch(t)
      [] expr = "date"     -> DateMatch(t)
      [] expr = "monthday" -> MonthDayMatch(t)
      [] expr = "number"   -> NumberMatch(t)
      [] expr = "space"    -> SpaceMatch(t)

\* re.sub(expr, repl, s): the non-overlapping matches, leftmost first, are
\* replaced
RECURSIVE ReSub(_, _, _)
ReSub(s, expr, repl) ==
    IF s = <<>> THEN <<>>
    ELSE LET m == MatchLen(expr, s)
         IN  IF m > 0 THEN repl \o ReSub(Drop(s, m), expr, repl)
             ELSE <<Head(s)>> \o ReSub(Tail(s), expr, repl)

\* extract_email_type_pattern, step 3: the re.sub calls in their order
ScrubSteps ==
    << [expr |-> "name",     repl |-> <<"*", NIM>>],
       [expr |-> "domain",   repl |-> <<"*">>],
       [expr |-> "date",     repl |-> <<"*">>],
       [expr |-> "monthday", repl |-> <<"*">>],
       [expr |-> "number",   repl |-> <<"*">>],
       [expr |-> "space",    repl |-> <<" ">>] >>

\* cleaned after the steps from the k-th on
RECURSIVE ScrubFrom(_, _)
ScrubFrom(cleaned, k) ==
    IF k > Len(ScrubSteps) THEN cleaned
    ELSE ScrubFrom(ReSub(cleaned, ScrubSteps[k].expr, ScrubSteps[k].repl), k + 1)

\* extract_email_type_pattern, step 3: the variable parts are scrubbed
Scrub(rest) == Strip(ScrubFrom(rest, 1))

\* extract_email_type_pattern
ExtractEmailTypePattern(subject) ==
    IF subject = <<>> THEN GENERAL_MAIL
    ELSE LET original == Strip(subject)
             prefix == PrefixGroup(original)
             after == Drop(original, Len(prefix))
             rest == IF prefix = <<>> THEN original ELSE Drop(after, RunLen(after, Whitespace))
             WithPrefix(x) == IF prefix = <<>> THEN x ELSE Strip(prefix \o <<" ">> \o x)
             label == KnownLabel(rest)
             cleaned == Scrub(rest)
             cut == IF Len(cleaned) > 30 THEN SubSeq(cleaned, 1, 30) \o <<".", ".", ".">>
                    ELSE cleaned
         IN  IF label # <<>> THEN WithPrefix(label)
             ELSE IF WithPrefix(cut) = <<>> THEN GENERAL_MAIL
             ELSE WithPrefix(cut)

\* a user_feedback document
Pref(user_id, sender, subject_pattern) ==
    [user_id |-> user_id, sender |-> sender, subject_pattern |-> subject_pattern]

\* "subject_pattern": None, as the documents written by earlier code have it;
\* it is kept apart from every string
NullPattern == <<None>>

\* get_user_silent_preferences: the user's documents; the empty list when
\* there is no store client or the query fails (read_ok false)
GetUserSilentPreferences(store, user_id, read_ok) ==
    IF read_ok THEN {d \in store : d.user_id = user_id} ELSE {}

\* set(pattern.replace("[", "").replace("]", "").split())
PatternKeywords(pattern) == SplitSet(SelectSeq(pattern, LAMBDA c : c \notin {"[", "]"}))

\* A variant of the loop body without the keyword-overlap rule
PrefSilencesExactOnly(pref, current_sender, current_pattern) ==
    /\ Strip(Lower(pref.sender)) = current_sender
    /\ \/ pref.subject_pattern \in {NullPattern, <<>>}
       \/ pref.subject_pattern = current_pattern

\* should_silence_for_user, the body of the loop: this document silences
PrefSilences(pref, current_sender, current_pattern) ==
    /\ Strip(Lower(pref.sender)) = current_sender
    /\ \/ pref.subject_pattern \in {NullPattern, <<>>}
       \/ pref.subject_pattern = current_pattern
       \/ Cardinality(PatternKeywords(pref.subject_pattern)
                        \cap PatternKeywords(current_pattern)) >= 3

\* should_silence_for_user, the loop over what get_user_silent_preferences
\* returned
ShouldSilence(prefs, current_sender, current_pattern) ==
    /\ prefs # {}
    /\ \E pref \in prefs : PrefSilences(pref, current_sender, current_pattern)

\* should_silence_for_user
ShouldSilenceForUser(store, user_id, sender, subject, read_ok) ==
    ShouldSilence(GetUserSilentPreferences(store, user_id, read_ok),
                  Strip(Lower(sender)), ExtractEmailTypePattern(subject))

\* save_user_silent_preference: the document is written under the hash of
\* user, sender and pattern; db_ok: the write reaches the store
SaveUserSilentPreference(user_id, sender, subject, db_ok) ==
    /\ user_feedback' =
          IF db_ok THEN user_feedback \cup {Pref(user_id, sender, ExtractEmailTypePattern(subject))}
          ELSE user_feedback
    /\ UNCHANGED mute_call

\* delete_user_silent_preference: the document under that hash is deleted
DeleteUserSilentPreference(user_id, sender, subject, db_ok) ==
    /\ user_feedback' =
          IF db_ok THEN user_feedback \ {Pref(user_id, sender, ExtractEmailTypePattern(subject))}
          ELSE user_feedback
    /\ UNCHANGED mute_call

\* one run of the per-target filter of process_single_event: the mail with
\* the pattern extract_email_type_pattern gives for its subject, the
\* analysis, which preference queries reached the store, whom
\* should_silence_for_user silenced, and final_targets
MuteCall(pc, event, pattern, targets, category, user_overrides, read_ok, silence, final_targets) ==
    [pc |-> pc, event |-> event, pattern |-> pattern, targets |-> targets,
     category |-> category, user_overrides |-> user_overrides, read_ok |-> read_ok,
     silence |-> silence, final_targets |-> final_targets]

NoMuteCall == MuteCall("idle", NoEvent, <<>>, {}, "none", EmptyDict, {}, {}, {})

\* process_single_event reaches the filter with the event and its targets
FilterBegin(event, targets) ==
    /\ mute_call = NoMuteCall
    /\ mute_call' = MuteCall("filter", event, ExtractEmailTypePattern(event.subject),
                             targets, "none", EmptyDict, {}, {}, {})
    /\ UNCHANGED user_feedback

\* process_single_event, the loop over targets: should_silence_for_user is
\* asked for the user targets; read_ok: the users whose preference query
\* reaches the store
FilterTargets(category, user_overrides, read_ok) ==
    /\ mute_call.pc = "filter"
    /\ LET silence == { t \in mute_call.targets \cap UserTargets :
                          ShouldSilence(
                              GetUserSilentPreferences(user_feedback, t, t \in read_ok),
                              Strip(Lower(mute_call.event.sender)), mute_call.pattern) }
       IN  mute_call' = [mute_call EXCEPT
                           !.pc = "filtered",
                           !.category = category,
                           !.user_overrides = user_overrides,
                           !.read_ok = read_ok,
                           !.silence = silence,
                           !.final_targets = FinalTargets(mute_call.targets, silence, category,
                                                          user_overrides)]
    /\ UNCHANGED user_feedback

FilterReturn ==
    /\ mute_call.pc = "filtered"
    /\ mute_call' = NoMuteCall
    /\ UNCHANGED user_feedback

(***************************************************************************)
(* The mute preferences as a state machine                                 *)
(***************************************************************************)

\* U1 is a delivery target; U2 is a user no mail here is routed to
MuteUsers == {"U1", "U2"}

\* "u@n", " U@N " and "u@b"
MuteSenders == { <<"u", "@", "n">>, <<" ", "U", "@", "N", " ">>, <<"u", "@", "b">> }

\* "[N] a b c 123", "a b" and "Re: Newsletter": the subjects of the mails a
\* user mutes
SavedSubjects ==
    { <<"[", "N", "]", " ", "a", " ", "b", " ", "c", " ", "1", "2", "3">>,
      <<"a", " ", "b">>,
      <<"R", "e", ":", " ", "N", "e", "w", "s", "l", "e", "t", "t", "e", "r">> }

\* and "a b c 4567", "x.com a b" and the empty subject: the subjects of the
\* mails that arrive
MuteSubjects ==
    SavedSubjects \cup
    { <<"a", " ", "b", " ", "c", " ", "4", "5", "6", "7">>,
      <<"x", ".", "c", "o", "m", " ", "a", " ", "b">>,
      <<>> }

MuteEvents == { MailEvent("m1", s, j) : s \in MuteSenders, j \in MuteSubjects }

\* analysis.raw_data["user_overrides"]
MuteOverrides ==
    { EmptyDict, [t \in {"U1"} |-> "silent"], [t \in {"U1"} |-> "notify"],
      [t \in {"C1"} |-> "notify"], [t \in {"C1"} |-> "silent"] }

\* how many user_feedback documents the model follows
MaxFeedback == 2

\* a document written by earlier code: sender only
LegacyPrefs == { Pref("U1", <<"u", "@", "n">>, NullPattern) }

MuteInit ==
    /\ user_feedback \in {{}, LegacyPrefs}
    /\ mute_call = NoMuteCall

(***************************************************************************)
(* Router: app/core/router.py and app/services/routing_store.py            *)
(***************************************************************************)

\* NotificationTarget: equal, and hashed, by (target_id, target_type)
NotificationTarget(target_id, target_type) ==
    [target_id |-> target_id, target_type |-> target_type]

\* gmail.lower().strip()
NormalizeGmail(gmail) == Strip(Lower(gmail))

\* the enabled routing_rules documents that name a user
NamedDocs(docs) == {d \in docs : d.slack_user_id # <<>>}

\* RoutingStore._load_from_firestore: new_cache
BuildCache(docs) ==
    [g \in {NormalizeGmail(a) : a \in UNION {d.gmail_accounts : d \in NamedDocs(docs)}} |->
        {d.slack_user_id : d \in {x \in NamedDocs(docs) :
                                     \E a \in x.gmail_accounts : NormalizeGmail(a) = g}}]

\* RoutingStore._refresh_cache_if_needed: a stale cache is rebuilt from the
\* documents; with no client or a failed read it keeps its content
RefreshCache(cache, stale, load_ok, docs) ==
    IF stale /\ load_ok THEN BuildCache(docs) ELSE cache

\* RoutingStore.get_targets_for_gmail
GetTargetsForGmail(cache, gmail_email) ==
    IF NormalizeGmail(gmail_email) \in DOMAIN cache
    THEN {NotificationTarget(id, "user") : id \in cache[NormalizeGmail(gmail_email)]}
    ELSE {}

\* str.replace(old, ""): every occurrence of old is removed, leftmost first
RECURSIVE RemoveAll(_, _)
RemoveAll(s, old) ==
    IF s = <<>> THEN <<>>
    ELSE IF StartsWith(s, old) THEN RemoveAll(Drop(s, Len(old)), old)
    ELSE <<Head(s)>> \o RemoveAll(Tail(s), old)

UserPrefix == <<"u", "s", "e", "r", ":">>

ChannelPrefix == <<"c", "h", "a", "n", "n", "e", "l", ":">>

\* Router._parse_target: the set holding the target, empty for an unknown format
ParseTarget(target_str) ==
    IF StartsWith(target_str, UserPrefix)
    THEN {NotificationTarget(RemoveAll(target_str, UserPrefix), "user")}
    ELSE IF StartsWith(target_str, ChannelPrefix)
    THEN {NotificationTarget(RemoveAll(target_str, ChannelPrefix), "channel")}
    ELSE {}

\* Router._add_targets_from_json: the targets of the rules whose email is
\* exactly an involved address
TargetsFromJson(rules, involved_emails) ==
    UNION { UNION {ParseTarget(r.targets[i]) : i \in 1..Len(r.targets)} :
              r \in {x \in rules : x.email \in involved_emails} }

\* involved_emails = set(event.recipients); involved_emails.add(event.owner)
InvolvedEmails(event) == event.recipients \cup {event.owner}

\* one Router.get_targets call: the addresses looked up in the primary
\* mapping, whether a lookup raised, the primary targets collected, whether
\* the static rules were consulted, and the result
RouteCall(event, looked_up, failed, primary, static_consulted, result) ==
    [event |-> event, looked_up |-> looked_up, failed |-> failed, primary |-> primary,
     static_consulted |-> static_consulted, result |-> result]

RouteEvent(owner, recipients) == [owner |-> owner, recipients |-> recipients]

NoRouteCall == RouteCall(RouteEvent(<<>>, {}), {}, FALSE, {}, FALSE, {})

\* A variant of get_targets that adds the static targets in every case
RouterGetTargetsAlwaysStatic(source, cache, rules, event, looked_up, failed) ==
    LET involved == InvolvedEmails(event)
        primary == UNION {GetTargetsForGmail(cache, a) : a \in looked_up}
    IN  IF source = "firestore"
        THEN RouteCall(event, looked_up, failed, primary, TRUE,
                       primary \cup TargetsFromJson(rules, involved))
        ELSE RouteCall(event, {}, FALSE, {}, TRUE, TargetsFromJson(rules, involved))

\* Router.get_targets.  looked_up: the involved addresses whose primary
\* lookup returned; failed: a lookup raised, which ends the loop with the
\* targets collected so far
RouterGetTargets(source, cache, rules, event, looked_up, failed) ==
    LET involved == InvolvedEmails(event)
        primary == UNION {GetTargetsForGmail(cache, a) : a \in looked_up}
    IN  IF source = "firestore"
        THEN IF failed \/ primary = {}
             THEN RouteCall(event, looked_up, failed, primary, TRUE,
                            primary \cup TargetsFromJson(rules, involved))
             ELSE RouteCall(event, looked_up, failed, primary, FALSE, primary)
        ELSE RouteCall(event, {}, FALSE, {}, TRUE, TargetsFromJson(rules, involved))

(***************************************************************************)
(* The router as a state machine                                           *)
(***************************************************************************)

\* the addresses "a", "A " and "b", and "c", which the primary never maps
RouteOwners == { <<"a">>, <<"A", " ">>, <<"b">> }

RouteRecipients == { {}, {<<"c">>}, {<<"a">>, <<"c">>} }

RouteEvents == { RouteEvent(o, r) : o \in RouteOwners, r \in RouteRecipients }

RoutingDoc(slack_user_id, gmail_accounts) ==
    [slack_user_id |-> slack_user_id, gmail_accounts |-> gmail_accounts]

\* what the query for the enabled routing_rules documents may return
RoutingDocSets ==
    { {},
      { RoutingDoc(<<"U", "1">>, {<<" ", "A">>}) },
      { RoutingDoc(<<"U", "1">>, {<<" ", "A">>}),
        RoutingDoc(<<"U", "2">>, {<<"a">>, <<"b">>}),
        RoutingDoc(<<>>, {<<"c">>}) } }

\* the static rule set (config/routing_rules.json)
RoutingRule(email, targets) == [email |-> email, targets |-> targets]

StaticRules ==
    { RoutingRule(<<"a">>, << <<"u", "s", "e", "r", ":", "U", "1">>,
                              <<"U", "7">> >>),
      RoutingRule(<<"c">>, << <<"c", "h", "a", "n", "n", "e", "l", ":", "C", "1">> >>),
      RoutingRule(<<"b">>, << <<"u", "s", "e", "r", ":", "u", "s", "e", "r", ":", "U", "9">> >>) }

RouterInit ==
    /\ ROUTING_SOURCE \in {"firestore", "json"}
    /\ routing_cache = EmptyDict
    /\ route_call = NoRouteCall

\* Router.get_targets, with the cache refresh its first lookup may trigger
GetTargets(event, stale, load_ok, docs, looked_up, failed) ==
    /\ route_call = NoRouteCall
    /\ routing_cache' = IF ROUTING_SOURCE = "firestore"
                        THEN RefreshCache(routing_cache, stale, load_ok, docs)
                        ELSE routing_cache
    /\ route_call' = RouterGetTargets(ROUTING_SOURCE, routing_cache', StaticRules, event,
                                      looked_up, failed)
    /\ UNCHANGED ROUTING_SOURCE

\* RoutingStore.get_all_monitored_emails: the mailbox poll refreshes the
\* cache whatever ROUTING_SOURCE says
GetAllMonitoredEmails(load_ok, docs) ==
    /\ route_call = NoRouteCall
    /\ routing_cache' = RefreshCache(routing_cache, TRUE, load_ok, docs)
    /\ UNCHANGED <<ROUTING_SOURCE, route_call>>

GetTargetsReturn ==
    /\ route_call # NoRouteCall
    /\ route_call' = NoRouteCall
    /\ UNCHANGED <<ROUTING_SOURCE, routing_cache>>

(***************************************************************************)
(* Slack interactive actions: app/main.py slack_interactive                *)
(***************************************************************************)

\* the action_id values whose work goes to a thread when the payload has a
\* response_url
SlackActions == {"silent_forever", "undo_silent", "mark_as_read_gmail"}

\* how many slack_interactive requests the model follows
MaxInteractions == 2

\* slack_interactive: "idle", or "started" between thread.start() and the
\* return; response_url: whether the latest payload had one; thread: the
\* thread the latest request started; requests: how many requests came in;
\* acked: the threads whose request has been answered
SlackHttp(pc, response_url, thread, requests, acked) ==
    [pc |-> pc, response_url |-> response_url, thread |-> thread, requests |-> requests,
     acked |-> acked]

\* process_silent_forever, process_undo_silent, process_mark_as_read: the
\* arguments of the thread, where it stands ("start", "worked", "done") and
\* how its store or mailbox call went.  type_pattern is what
\* extract_email_type_pattern gives for the subject, in the store call and
\* in the thread alike.
SlackThread(action_id, subject, pc, outcome) ==
    [action_id |-> action_id, subject |-> subject,
     type_pattern |-> ExtractEmailTypePattern(subject), pc |-> pc, outcome |-> outcome]

\* the user who clicks, the sender and the message of the notification
SlackUser == "U1"

SlackSender == <<"u", "@", "n">>

SlackMessage == "m1"

\* the subjects the buttons carry: "[N] a b c 123" and "a b"
SlackSubjects ==
    { <<"[", "N", "]", " ", "a", " ", "b", " ", "c", " ", "1", "2", "3">>, <<"a", " ", "b">> }

SlackInit ==
    /\ slack_http = SlackHttp("idle", FALSE, 0, 0, {})
    /\ slack_threads = <<>>
    /\ slack_posts = {}
    /\ gmail_read = {}

\* slack_interactive with a block_actions payload, up to thread.start() when
\* the payload has a response_url, up to the return otherwise.  value_ok:
\* json.loads(action['value']) does not raise (when it does, the handler
\* answers 200 and nothing else happens); db_ok: the store call of the
\* synchronous path reaches the store.
SlackInteractive(action_id, subject, response_url, value_ok, db_ok) ==
    /\ slack_http.pc = "idle"
    /\ slack_http.requests < MaxInteractions
    /\ IF value_ok /\ response_url
       THEN /\ slack_threads' = Append(slack_threads,
                                       SlackThread(action_id, subject, "start", "none"))
            /\ slack_http' = [slack_http EXCEPT !.pc = "started",
                                                !.response_url = TRUE,
                                                !.thread = Len(slack_threads) + 1,
                                                !.requests = @ + 1]
            /\ UNCHANGED muteVars
       ELSE /\ slack_http' = [slack_http EXCEPT !.response_url = response_url,
                                                !.requests = @ + 1]
            /\ UNCHANGED slack_threads
            /\ IF value_ok /\ action_id = "silent_forever"
               THEN SaveUserSilentPreference(SlackUser, SlackSender, subject, db_ok)
               ELSE IF value_ok /\ action_id = "undo_silent"
               THEN DeleteUserSilentPreference(SlackUser, SlackSender, subject, db_ok)
               ELSE UNCHANGED muteVars
    /\ UNCHANGED <<slack_posts, gmail_read>>

\* a handler that joins the thread it started before it returns
SlackReturnAfterJoin ==
    /\ slack_http.pc = "started"
    /\ slack_threads[slack_http.thread].pc = "done"
    /\ slack_http' = [slack_http EXCEPT !.pc = "idle", !.acked = @ \cup {slack_http.thread}]
    /\ UNCHANGED <<slack_threads, slack_posts, gmail_read, muteVars>>

\* return '', 200 after thread.start()
SlackReturn ==
    /\ slack_http.pc = "started"
    /\ slack_http' = [slack_http EXCEPT !.pc = "idle", !.acked = @ \cup {slack_http.thread}]
    /\ UNCHANGED <<slack_threads, slack_posts, gmail_read, muteVars>>

\* the thread's first call: save_user_silent_preference,
\* delete_user_silent_preference (neither raises; "failed": the store was not
\* reached) or get_gmail_service().mark_as_read ("failed": it returned
\* False; "raised": get_gmail_service raised)
ThreadWork(t, outcome) ==
    LET th == slack_threads[t]
    IN  /\ t \in DOMAIN slack_threads
        /\ th.pc = "start"
        /\ outcome = "raised" => th.action_id = "mark_as_read_gmail"
        /\ slack_threads' = [slack_threads EXCEPT ![t].pc = "worked", ![t].outcome = outcome]
        /\ user_feedback' =
              IF th.action_id = "silent_forever" /\ outcome = "ok"
              THEN user_feedback \cup {Pref(SlackUser, SlackSender, th.type_pattern)}
              ELSE IF th.action_id = "undo_silent" /\ outcome = "ok"
              THEN user_feedback \ {Pref(SlackUser, SlackSender, th.type_pattern)}
              ELSE user_feedback
        /\ UNCHANGED mute_call
        /\ gmail_read' = IF th.action_id = "mark_as_read_gmail" /\ outcome = "ok"
                         THEN gmail_read \cup {SlackMessage} ELSE gmail_read
        /\ UNCHANGED <<slack_http, slack_posts>>

\* the message the thread hands to _send_slack_response, "none" when it
\* hands none.  build_ok: rebuilding the blocks of the original message does
\* not raise.  The handlers of process_silent_forever and
\* process_undo_silent only log; that of process_mark_as_read posts the
\* error.
ThreadMessage(th, build_ok) ==
    IF th.action_id = "mark_as_read_gmail"
    THEN IF th.outcome = "raised" THEN "error"
         ELSE IF th.outcome = "failed" THEN "failure"
         ELSE IF build_ok THEN "blocks" ELSE "error"
    ELSE IF build_ok THEN "blocks" ELSE "none"

\* the rest of the thread: the blocks, _send_slack_response (post_ok: the
\* POST reaches response_url; a failed POST is logged), the end of the thread
ThreadRespond(t, build_ok, post_ok) ==
    LET th == slack_threads[t]
        message == ThreadMessage(th, build_ok)
    IN  /\ t \in DOMAIN slack_threads
        /\ th.pc = "worked"
        /\ slack_threads' = [slack_threads EXCEPT ![t].pc = "done"]
        /\ slack_posts' = IF message # "none" /\ post_ok
                          THEN slack_posts \cup {<<t, message>>} ELSE slack_posts
        /\ UNCHANGED <<slack_http, gmail_read, muteVars>>

\* a step of some thread
ThreadStep ==
    \/ \E t \in DOMAIN slack_threads, outcome \in {"ok", "failed", "raised"} :
         ThreadWork(t, outcome)
    \/ \E t \in DOMAIN slack_threads, build_ok \in BOOLEAN, post_ok \in BOOLEAN :
         ThreadRespond(t, build_ok, post_ok)

(***************************************************************************)
(* Priors: app/services/learning_store.py calculate_prior_from_scores      *)
(***************************************************************************)

\* Scores and thresholds are in hundredths.  A quotient of two counts is the
\* fraction in lowest terms: two quotients are the same float exactly when
\* they are the same fraction.

RECURSIVE Gcd(_, _)
Gcd(a, b) == IF b = 0 THEN a ELSE Gcd(b, a % b)

Quotient(a, b) == <<a \div Gcd(a, b), b \div Gcd(a, b)>>

\* the attributes class Config defines
ConfigAttributes ==
    { "SLACK_BOT_TOKEN", "SLACK_SIGNING_SECRET", "LLM_API_KEY",
      "GOOGLE_APPLICATION_CREDENTIALS", "ADMIN_EMAIL", "AWS_ACCESS_KEY_ID",
      "AWS_SECRET_ACCESS_KEY", "AWS_REGION", "BEDROCK_MODEL_ID", "ROUTING_SOURCE",
      "FIRESTORE_PROJECT_ID", "ROUTING_CACHE_TTL_SEC", "LEARNING_ENABLED", "BASE_DIR",
      "ROUTING_CONFIG_PATH", "SPAM_FILTER_CONFIG_PATH", "SCORE_THRESHOLD_NOTIFY",
      "load_routing_rules", "load_spam_filter", "_load_json_config", "validate" }

\* what a call gives: a pair (prior, samples), or the exception it raises
PriorValue(prior, samples) == [kind |-> "value", prior |-> prior, samples |-> samples]

PriorRaises(exception) == [kind |-> exception, prior |-> <<0, 1>>, samples |-> 0]

\* the loop over scores: <<positive_count, negative_count>>
RECURSIVE CountScores(_, _)
CountScores(scores, positive_threshold) ==
    IF scores = <<>> THEN <<0, 0>>
    ELSE LET counts == CountScores(Tail(scores), positive_threshold)
             score == Head(scores)
         IN  IF score >= positive_threshold THEN <<counts[1] + 1, counts[2]>>
             ELSE IF score <= 0 THEN <<counts[1], counts[2] + 1>>
             ELSE counts

\* a function that counts a score of exactly the threshold as neutral
CalculatePriorFromScoresStrict(scores, positive_threshold) ==
    LET positive_count == Cardinality({i \in DOMAIN scores : scores[i] > positive_threshold})
        negative_count == Cardinality({i \in DOMAIN scores : scores[i] <= 0})
        samples == positive_count + negative_count
    IN  IF samples = 0 THEN PriorRaises("AttributeError")
        ELSE PriorValue(Quotient(positive_count, samples), samples)

\* calculate_prior_from_scores.  With no sample the function evaluates
\* Config.BASELINE_PRIOR, an attribute class Config does not define.
CalculatePriorFromScores(scores, positive_threshold) ==
    LET counts == CountScores(scores, positive_threshold)
        positive_count == counts[1]
        samples == counts[1] + counts[2]
    IN  IF samples = 0
        THEN IF "BASELINE_PRIOR" \in ConfigAttributes
             THEN PriorValue("BASELINE_PRIOR", 0)
             ELSE PriorRaises("AttributeError")
        ELSE PriorValue(Quotient(positive_count, samples), samples)

PriorCall(pc, scores, positive_threshold, result) ==
    [pc |-> pc, scores |-> scores, positive_threshold |-> positive_threshold,
     result |-> result]

NoPriorCall == PriorCall("idle", <<>>, 0, PriorValue(<<0, 1>>, 0))

\* how many scores the model hands to one call
MaxScores == 4

\* the engagement scores of the mails: none of the events, a click, a late
\* read, a late read and a click, a prompt read; and a score below zero
PriorScores == {-50, 0, 20, 50, 70, 100}

\* positive_threshold: the default 0.7, and 0.5 and 1.0
PriorThresholds == {50, 70, 100}

RECURSIVE ScoreLists(_)
ScoreLists(n) ==
    IF n = 0 THEN {<<>>}
    ELSE ScoreLists(n - 1) \cup
         {Append(l, x) : l \in {k \in ScoreLists(n - 1) : Len(k) = n - 1}, x \in PriorScores}

PriorInit == prior_call = NoPriorCall

\* one call of calculate_prior_from_scores
CalculatePrior(scores, positive_threshold) ==
    /\ prior_call.pc = "idle"
    /\ prior_call' = PriorCall("returned", scores, positive_threshold,
                               CalculatePriorFromScores(scores, positive_threshold))

PriorReturn ==
    /\ prior_call.pc = "returned"
    /\ prior_call' = NoPriorCall

(***************************************************************************)
(* Stored priors: app/services/learning_store.py get_org_prior,            *)
(* get_user_prior, update_priors_for_sender, update_all_priors             *)
(***************************************************************************)

\* a document of priors_org or priors_user
PriorDoc(prior, samples) == [prior |-> prior, samples |-> samples]

\* the triple (prior, samples, source) a lookup returns
PriorResult(prior, samples, source) ==
    [prior |-> prior, samples |-> samples, source |-> source]

NoPrior == PriorResult(None, 0, "none")

\* _make_user_prior_key: f"{user_email}__{key_value}"
MakeUserPriorKey(user_email, key_value) == user_email \o <<"_", "_">> \o key_value

\* Config.<name>: the attribute, or the AttributeError the access raises
ConfigGet(name) == IF name \in ConfigAttributes THEN name ELSE "AttributeError"

\* one of the two steps of a lookup: the document under key, then the test
\* samples >= Config.PRIOR_MIN_SAMPLES.  "next": no document, or too few
\* samples; "raise": the test raises, class Config having no such attribute.
PriorStep(docs, key, source) ==
    IF key \notin DOMAIN docs THEN [kind |-> "next", result |-> NoPrior]
    ELSE IF ConfigGet("PRIOR_MIN_SAMPLES") = "AttributeError"
    THEN [kind |-> "raise", result |-> NoPrior]
    ELSE IF docs[key].samples >= ConfigGet("PRIOR_MIN_SAMPLES")
    THEN [kind |-> "return",
          result |-> PriorResult(docs[key].prior, docs[key].samples, source)]
    ELSE [kind |-> "next", result |-> NoPrior]

\* the body of get_org_prior and of get_user_prior.  db_ok: there is a store
\* client; read_ok: the reads reach the store.  Whatever the try raises is
\* logged and answered with (None, 0, "none").
GetPrior(docs, sender_key, domain_key, db_ok, read_ok) ==
    IF ~db_ok \/ ~read_ok THEN NoPrior
    ELSE LET first == PriorStep(docs, sender_key, "sender")
             second == PriorStep(docs, domain_key, "domain")
         IN  IF first.kind = "return" THEN first.result
             ELSE IF first.kind = "raise" THEN NoPrior
             ELSE IF second.kind = "return" THEN second.result
             ELSE NoPrior

\* one lookup: the collection as the call found it, the two document ids,
\* whether the reads reached the store, the result
PriorLookup(pc, docs, sender_key, domain_key, read, result) ==
    [pc |-> pc, docs |-> docs, sender_key |-> sender_key, domain_key |-> domain_key,
     read |-> read, result |-> result]

NoPriorLookup == PriorLookup("idle", <<>>, <<>>, <<>>, FALSE, NoPrior)

\* get_org_prior(from_email, from_domain)
GetOrgPrior(from_email, from_domain, db_ok, read_ok) ==
    /\ prior_lookup.pc = "idle"
    /\ prior_lookup' = PriorLookup("returned", priors_org, from_email, from_domain,
                                   db_ok /\ read_ok,
                                   GetPrior(priors_org, from_email, from_domain, db_ok, read_ok))
    /\ UNCHANGED <<priors_org, priors_user, prior_job>>

\* get_user_prior(user_email, from_email, from_domain)
GetUserPrior(user_email, from_email, from_domain, db_ok, read_ok) ==
    LET sender_key == MakeUserPriorKey(user_email, from_email)
        domain_key == MakeUserPriorKey(user_email, from_domain)
    IN  /\ prior_lookup.pc = "idle"
        /\ prior_lookup' = PriorLookup("returned", priors_user, sender_key, domain_key,
                                       db_ok /\ read_ok,
                                       GetPrior(priors_user, sender_key, domain_key, db_ok,
                                                read_ok))
        /\ UNCHANGED <<priors_org, priors_user, prior_job>>

GetPriorReturn ==
    /\ prior_lookup.pc = "returned"
    /\ prior_lookup' = NoPriorLookup
    /\ UNCHANGED <<priors_org, priors_user, prior_job>>

\* the sender "s@d" of domain "d", the user "u"
LearnSender == <<"s", "@", "d">>

LearnDomain == <<"d">>

LearnUser == <<"u">>

\* the largest sample count of a stored prior in the model
MaxSamples == 5

\* the documents a collection may hold under a key: none, or a prior of 0.8
\* with 2 or MaxSamples samples
PriorDocSets(keys) ==
    UNION { [ks -> {PriorDoc(80, n) : n \in {2, MaxSamples}}] : ks \in SUBSET keys }

\* calculate_engagement_score(events), events being the event types of one
\* mail: the sum of the weights, or the AttributeError of the first
\* Config.IMPLICIT_... the loop reads (class Config defines none of them).
\* An event of another type adds nothing.
CalculateEngagementScore(events) ==
    IF \E i \in DOMAIN events : events[i] \in {"gmail_read", "slack_click_open"}
    THEN IF ConfigGet("IMPLICIT_POS_READ_MIN") = "AttributeError"
            \/ ConfigGet("IMPLICIT_SCORE_CLICK") = "AttributeError"
         THEN [kind |-> "AttributeError", score |-> 0]
         ELSE [kind |-> "value", score |-> 100]
    ELSE [kind |-> "value", score |-> 0]

\* update_all_priors: "idle", "running" (the loop over senders), "done";
\* senders: the set the discovery built; pending: those the loop has not
\* reached; attempts: the calls of update_priors_for_sender per sender
PriorJob(pc, senders, pending, attempts, updated, failed) ==
    [pc |-> pc, senders |-> senders, pending |-> pending, attempts |-> attempts,
     updated |-> updated, failed |-> failed]

NoPriorJob == PriorJob("idle", {}, {}, <<>>, 0, 0)

\* update_all_priors up to its loop.  db_ok: there is a store client;
\* query_ok: the discovery does not raise; senders: the (from_email,
\* from_domain) pairs found.  Without a client, or when the discovery
\* raises, the function returns {"updated": 0, "failed": 0}.
UpdateAllPriors(db_ok, query_ok, senders) ==
    /\ prior_job.pc = "idle"
    /\ prior_job' = IF db_ok /\ query_ok
                    THEN PriorJob("running", senders, senders, [x \in senders |-> 0], 0, 0)
                    ELSE PriorJob("done", {}, {}, <<>>, 0, 0)
    /\ UNCHANGED <<priors_org, priors_user, prior_lookup>>

\* what update_priors_for_sender answers, whether it calls upsert_prior_org,
\* and with which prior and samples
UpdateAnswer(success, upsert, doc) == [success |-> success, upsert |-> upsert, doc |-> doc]

\* update_priors_for_sender(from_email, from_domain).  mails: per mail of the
\* sender in the window, the types of its engagement events.
UpdatePriorsForSender(from_email, db_ok, query_ok, mails) ==
    IF ~db_ok THEN UpdateAnswer(FALSE, FALSE, PriorDoc(0, 0))
    ELSE IF ~query_ok THEN UpdateAnswer(FALSE, FALSE, PriorDoc(0, 0))
    ELSE IF mails = <<>> THEN UpdateAnswer(TRUE, FALSE, PriorDoc(0, 0))
    ELSE IF \E i \in DOMAIN mails : CalculateEngagementScore(mails[i]).kind # "value"
    THEN UpdateAnswer(FALSE, FALSE, PriorDoc(0, 0))
    ELSE LET scores == [i \in DOMAIN mails |-> CalculateEngagementScore(mails[i]).score]
             result == CalculatePriorFromScores(scores, 70)
         IN  IF result.kind # "value" THEN UpdateAnswer(FALSE, FALSE, PriorDoc(0, 0))
             ELSE IF result.samples > 0
             THEN UpdateAnswer(TRUE, TRUE,
                               PriorDoc((100 * result.prior[1]) \div result.prior[2],
                                        result.samples))
             ELSE UpdateAnswer(TRUE, FALSE, PriorDoc(0, 0))

\* a loop that a failing sender ends
UpdateNextSenderStopsOnFailure(sender, db_ok, query_ok, mails, write_ok) ==
    LET call == UpdatePriorsForSender(sender[1], db_ok, query_ok, mails)
    IN  /\ prior_job.pc = "running"
        /\ sender \in prior_job.pending
        /\ prior_job' = [prior_job EXCEPT
                           !.pending = IF call.success THEN @ \ {sender} ELSE {},
                           !.attempts[sender] = @ + 1,
                           !.updated = IF call.success THEN @ + 1 ELSE @,
                           !.failed = IF call.success THEN @ ELSE @ + 1]
        /\ priors_org' = IF call.upsert /\ write_ok
                         THEN [k \in DOMAIN priors_org \cup {sender[1]} |->
                                 IF k = sender[1] THEN call.doc ELSE priors_org[k]]
                         ELSE priors_org
        /\ UNCHANGED <<priors_user, prior_lookup>>

\* one turn of the loop of update_all_priors: update_priors_for_sender for
\* the next sender, then the count.  write_ok: upsert_prior_org reaches the
\* store (its answer is not looked at).
UpdateNextSender(sender, db_ok, query_ok, mails, write_ok) ==
    LET call == UpdatePriorsForSender(sender[1], db_ok, query_ok, mails)
    IN  /\ prior_job.pc = "running"
        /\ sender \in prior_job.pending
        /\ prior_job' = [prior_job EXCEPT
                           !.pending = @ \ {sender},
                           !.attempts[sender] = @ + 1,
                           !.updated = IF call.success THEN @ + 1 ELSE @,
                           !.failed = IF call.success THEN @ ELSE @ + 1]
        /\ priors_org' = IF call.upsert /\ write_ok
                         THEN [k \in DOMAIN priors_org \cup {sender[1]} |->
                                 IF k = sender[1] THEN call.doc ELSE priors_org[k]]
                         ELSE priors_org
        /\ UNCHANGED <<priors_user, prior_lookup>>

\* update_all_priors returns {"updated": updated, "failed": failed}
UpdateAllPriorsReturn ==
    /\ prior_job.pc = "running"
    /\ prior_job.pending = {}
    /\ prior_job' = [prior_job EXCEPT !.pc = "done"]
    /\ UNCHANGED <<priors_org, priors_user, prior_lookup>>

\* the senders the discovery may find: "s@d" of domain "d", and "x", an
\* address without a domain
LearnSenders == { <<LearnSender, LearnDomain>>, <<<<"x">>, <<>>>> }

\* the mails of a sender in the window, each with the types of its
\* engagement events
LearnMails ==
    { <<>>, << <<>> >>, << <<"gmail_read">> >>, << <<>>, <<>> >>, << <<>>, <<"gmail_read">> >> }

LearnInit ==
    /\ priors_org \in PriorDocSets({LearnSender, LearnDomain})
    /\ priors_user \in PriorDocSets({MakeUserPriorKey(LearnUser, LearnSender),
                                     MakeUserPriorKey(LearnUser, LearnDomain)})
    /\ prior_lookup = NoPriorLookup
    /\ prior_job = NoPriorJob

LearnQuiet ==
    /\ priors_org = <<>> /\ priors_user = <<>>
    /\ prior_lookup = NoPriorLookup /\ prior_job = NoPriorJob

(***************************************************************************)
(* The expiry of a dedup marker: app/utils/state_store.py                  *)
(***************************************************************************)

\* PROCESSED_TTL_DAYS = 7
PROCESSED_TTL_DAYS == 7

DayMinutes == 24 * 60

\* how many days the expiry runs follow
MaxDays == 8

\* the expire_at fields after mark_processed at time t_now: the Firestore
\* store writes expire_at = utcnow() + timedelta(days=PROCESSED_TTL_DAYS)
\* with the processed document; the file and in-memory stores keep a list
\* of target ids and no time
ExpireAtAfterMark(be, fields, message_id, target_id, t_now, reached) ==
    IF be = "firestore" /\ reached >= 1
    THEN (MakeDocId(message_id, target_id) :> t_now + PROCESSED_TTL_DAYS * DayMinutes) @@ fields
    ELSE fields

ExpiryCheck(pc, id, at, answer) == [pc |-> pc, id |-> id, at |-> at, answer |-> answer]

NoExpiryCheck == ExpiryCheck("idle", <<>>, 0, FALSE)

\* mark_processed(message_id, target_id) without sender and subject
MarkWithExpiry(message_id, target_id, reached) ==
    LET st == MarkProcessed(backend, TheStore, message_id, target_id, <<>>, <<>>, now, reached)
    IN  /\ expiry_check.pc = "idle"
        /\ processed' = st.processed
        /\ recent_content' = st.recent_content
        /\ throttling' = st.throttling
        /\ expire_at' = ExpireAtAfterMark(backend, expire_at, message_id, target_id, now,
                                          reached)
        /\ UNCHANGED <<backend, now, markVars, expiry_check>>

\* is_processed(message_id, target_id); ok: the read reaches the store
CheckProcessed(message_id, target_id, ok) ==
    /\ expiry_check.pc = "idle"
    /\ expiry_check' = ExpiryCheck("returned", MakeDocId(message_id, target_id), now,
                                   IsProcessed(backend, TheStore, message_id, target_id, ok))
    /\ UNCHANGED <<storeVars, markVars, expire_at>>

CheckProcessedReturn ==
    /\ expiry_check.pc = "returned"
    /\ expiry_check' = NoExpiryCheck
    /\ UNCHANGED <<storeVars, markVars, expire_at>>

\* a day passes
DayPasses ==
    /\ expiry_check.pc = "idle"
    /\ now < MaxDays * DayMinutes
    /\ now' = now + DayMinutes
    /\ UNCHANGED <<backend, processed, recent_content, throttling, markVars, ttlVars>>

TtlInit == expire_at = EmptyDict /\ expiry_check = NoExpiryCheck

TtlQuiet == TtlInit

(***************************************************************************)
(* Mute and unmute, call by call: app/services/learning_store.py           *)
(***************************************************************************)

\* how many calls a run makes
MaxMuteCalls == 3

\* a call and what it returned; ok: the call reached the store
LoggedCall(op, user_id, sender, subject, ok, answer) ==
    [op |-> op, user_id |-> user_id, sender |-> sender, subject |-> subject, ok |-> ok,
     answer |-> answer]

\* save_user_silent_preference(user_id, sender, subject): True when the
\* document was written
SaveCall(user_id, sender, subject, db_ok) ==
    /\ Len(mute_log) < MaxMuteCalls
    /\ SaveUserSilentPreference(user_id, sender, subject, db_ok)
    /\ mute_log' = Append(mute_log, LoggedCall("save", user_id, sender, subject, db_ok, db_ok))

\* delete_user_silent_preference(user_id, sender, subject): True when the
\* delete was sent, whether or not a document had that id
DeleteCall(user_id, sender, subject, db_ok) ==
    /\ Len(mute_log) < MaxMuteCalls
    /\ DeleteUserSilentPreference(user_id, sender, subject, db_ok)
    /\ mute_log' = Append(mute_log, LoggedCall("delete", user_id, sender, subject, db_ok, db_ok))

\* should_silence_for_user(user_id, sender, subject)
SilenceCall(user_id, sender, subject, read_ok) ==
    /\ Len(mute_log) < MaxMuteCalls
    /\ mute_log' = Append(mute_log,
                          LoggedCall("ask", user_id, sender, subject, read_ok,
                                     ShouldSilenceForUser(user_feedback, user_id, sender, subject,
                                                          read_ok)))
    /\ UNCHANGED muteVars

TripUsers == {"U1"}

\* "u@n" and " U@N ": one sender up to letter case and surrounding whitespace
TripSenders == { <<"u", "@", "n">>, <<" ", "U", "@", "N", " ">> }

\* "a b" and "Re: Newsletter"
TripSubjects ==
    { <<"a", " ", "b">>,
      <<"R", "e", ":", " ", "N", "e", "w", "s", "l", "e", "t", "t", "e", "r">> }

TripInit == mute_log = <<>>

TripQuiet == TripInit

(***************************************************************************)
(* block-notification and the batches after it: app/main.py                *)
(***************************************************************************)

\* an email_events document, the fields block_notification and the cached
\* branch of process_single_event read
EventDoc(from_email, subject, slack_targets, final_category) ==
    [from_email |-> from_email, subject |-> subject, slack_targets |-> slack_targets,
     final_category |-> final_category]

\* the targets of the mailbox: the users U1 and W1 (target_type "user") and
\* the channel C1
BlockRoute == {"U1", "W1", "C1"}
BlockUsers == {"U1", "W1"}

\* tid.startswith('U')
StartsWithU(tid) == tid \in {"U1", "U2"}

\* how many process_single_event calls follow
MaxLaterBatches == 2

\* a request: the document get_email_event returned, its pattern, the
\* response, the users whose preference was written
BlockCall(pc, email_id, event_dict, type_pattern, status, saved) ==
    [pc |-> pc, email_id |-> email_id, event_dict |-> event_dict,
     type_pattern |-> type_pattern, status |-> status, saved |-> saved]

NoEventDoc == EventDoc(<<>>, <<>>, {}, "none")

NoBlockCall == BlockCall("idle", "none", NoEventDoc, <<>>, 0, {})

\* a process_single_event call; pending: the targets the call before it
\* passed to the delivery client for the same mail when the send failed
LaterCall(pc, event, pattern, pending, existing, read_ok, category, final_targets, new_targets, delivered) ==
    [pc |-> pc, event |-> event, pattern |-> pattern, pending |-> pending,
     existing |-> existing, read_ok |-> read_ok, category |-> category,
     final_targets |-> final_targets, new_targets |-> new_targets, delivered |-> delivered]

NoLaterCall == LaterCall("idle", NoEvent, <<>>, {}, FALSE, {}, "none", {}, {}, {})

\* block_notification(email_id), the one request a run follows, to
\* get_email_event and extract_email_type_pattern.  db_ok: there is a store
\* client; read_ok: the read reaches the store
BlockNotification(email_id, db_ok, read_ok) ==
    LET found == db_ok /\ read_ok /\ email_id \in DOMAIN event_docs
    IN  /\ block_call = NoBlockCall
        /\ block_call' =
              IF found
              THEN BlockCall("learn", email_id, event_docs[email_id],
                             ExtractEmailTypePattern(event_docs[email_id].subject), 0, {})
              ELSE BlockCall("returned", email_id, NoEventDoc, <<>>, 404, {})
        /\ UNCHANGED <<event_docs, later_call, later_count, muteVars>>

\* save_user_silent_preference for every tid of target_ids that starts
\* with 'U'; saved: the users whose write reaches the store
SaveAll(store, sender, type_pattern, target_ids, saved) ==
    store \cup { Pref(tid, sender, type_pattern) :
                   tid \in {t \in target_ids : StartsWithU(t) /\ t \in saved} }

\* A variant of block_notification that records the preferences and
\* leaves the document as it is
BlockLearnKeepsCategory(saved, upd_ok) ==
    LET email_id == block_call.email_id
        doc == block_call.event_dict
        users == {t \in doc.slack_targets : StartsWithU(t)}
        learns == doc.from_email # <<>> /\ doc.slack_targets # {}
        written == IF learns THEN users \cap saved ELSE {}
    IN  /\ block_call.pc = "learn"
        /\ user_feedback' =
              IF learns
              THEN SaveAll(user_feedback, doc.from_email, block_call.type_pattern,
                           doc.slack_targets, saved)
              ELSE user_feedback
        /\ block_call' = [block_call EXCEPT !.pc = "returned",
                                            !.status = IF upd_ok THEN 200 ELSE 500,
                                            !.saved = written]
        /\ UNCHANGED event_docs
        /\ UNCHANGED <<later_call, later_count, mute_call>>

\* block_notification, the rest: the preferences, the update of the
\* document, the response.  saved: the users whose preference write reaches
\* the store; upd_ok: the update does
BlockLearn(saved, upd_ok) ==
    LET email_id == block_call.email_id
        doc == block_call.event_dict
        users == {t \in doc.slack_targets : StartsWithU(t)}
        learns == doc.from_email # <<>> /\ doc.slack_targets # {}
        written == IF learns THEN users \cap saved ELSE {}
    IN  /\ block_call.pc = "learn"
        /\ user_feedback' =
              IF learns
              THEN SaveAll(user_feedback, doc.from_email, block_call.type_pattern,
                           doc.slack_targets, saved)
              ELSE user_feedback
        /\ IF upd_ok
           THEN /\ event_docs' = [event_docs EXCEPT ![email_id].final_category = SILENT]
                /\ block_call' = [block_call EXCEPT !.pc = "returned", !.status = 200,
                                                    !.saved = written]
           ELSE /\ block_call' = [block_call EXCEPT !.pc = "returned", !.status = 500,
                                                    !.saved = written]
                /\ UNCHANGED event_docs
        /\ UNCHANGED <<later_call, later_count, mute_call>>

\* process_single_event(event) in a batch after the request, to the
\* per-target filter (the pattern of the mail just handled is taken from
\* that call: the function is deterministic)
ProcessLaterBegin(event) ==
    /\ later_call.pc # "filter"
    /\ later_count' = IF later_count < MaxLaterBatches THEN later_count + 1 ELSE later_count
    /\ later_call' = LaterCall("filter", event,
                               IF later_call.event = event THEN later_call.pattern
                               ELSE ExtractEmailTypePattern(event.subject),
                               IF later_call.event = event /\ later_call.delivered = {}
                               THEN later_call.new_targets ELSE {},
                               FALSE, {}, "none", {}, {}, {})
    /\ UNCHANGED <<event_docs, block_call, muteVars>>

\* A variant of process_single_event that marks the targets whether or
\* not the send succeeded
ProcessLaterMarksAlways(event_read, category, user_overrides, read_ok, save_ok, send_ok) ==
    LET event == later_call.event
        m == event.message_id
        existing == event_read /\ m \in DOMAIN event_docs
        stored == event_docs[m].final_category
        cat == IF existing
               THEN (IF stored \in {NOTIFY, SILENT} THEN stored ELSE SILENT)
               ELSE category
        ov == IF existing THEN EmptyDict ELSE user_overrides
        silenced == { t \in BlockRoute \cap BlockUsers :
                        ShouldSilence(GetUserSilentPreferences(user_feedback, t, t \in read_ok),
                                      Strip(Lower(event.sender)), later_call.pattern) }
        final_targets == { t \in BlockRoute :
                             /\ t \notin silenced
                             /\ IF t \in DOMAIN ov /\ ov[t] = "silent" THEN FALSE
                                ELSE IF t \in DOMAIN ov /\ ov[t] = "notify" THEN TRUE
                                ELSE cat = NOTIFY }
        new_targets == NewTargets(backend, TheStore, event, final_targets, now,
                                  final_targets, final_targets)
        delivered == IF send_ok THEN new_targets ELSE {}
        st == MarkAll(backend, TheStore, m, new_targets, event.sender, event.subject, now,
                      [t \in new_targets |-> 2])
    IN  /\ later_call.pc = "filter"
        /\ later_call' = LaterCall("returned", event, later_call.pattern, later_call.pending,
                                   existing, read_ok, cat, final_targets, new_targets,
                                   delivered)
        /\ event_docs' =
              IF ~existing /\ save_ok
              THEN (m :> EventDoc(event.sender, event.subject,
                                  IF final_targets # {} THEN final_targets ELSE BlockRoute,
                                  cat)) @@ event_docs
              ELSE event_docs
        /\ processed' = st.processed
        /\ recent_content' = st.recent_content
        /\ throttling' = st.throttling
        /\ UNCHANGED <<backend, now, markVars, muteVars, block_call, later_count>>

\* process_single_event, the rest.  event_read: get_email_event reaches the
\* store; category, user_overrides: what the classifier answers for a mail
\* without a stored event; read_ok: the users whose preference query
\* reaches the store; save_ok: the snapshot write does; send_ok: the
\* delivery client reports success
ProcessLater(event_read, category, user_overrides, read_ok, save_ok, send_ok) ==
    LET event == later_call.event
        m == event.message_id
        existing == event_read /\ m \in DOMAIN event_docs
        stored == event_docs[m].final_category
        cat == IF existing
               THEN (IF stored \in {NOTIFY, SILENT} THEN stored ELSE SILENT)
               ELSE category
        ov == IF existing THEN EmptyDict ELSE user_overrides
        silenced == { t \in BlockRoute \cap BlockUsers :
                        ShouldSilence(GetUserSilentPreferences(user_feedback, t, t \in read_ok),
                                      Strip(Lower(event.sender)), later_call.pattern) }
        final_targets == { t \in BlockRoute :
                             /\ t \notin silenced
                             /\ IF t \in DOMAIN ov /\ ov[t] = "silent" THEN FALSE
                                ELSE IF t \in DOMAIN ov /\ ov[t] = "notify" THEN TRUE
                                ELSE cat = NOTIFY }
        new_targets == NewTargets(backend, TheStore, event, final_targets, now,
                                  final_targets, final_targets)
        delivered == IF send_ok THEN new_targets ELSE {}
        st == MarkAll(backend, TheStore, m, delivered, event.sender, event.subject, now,
                      [t \in delivered |-> 2])
    IN  /\ later_call.pc = "filter"
        /\ later_call' = LaterCall("returned", event, later_call.pattern, later_call.pending,
                                   existing, read_ok, cat, final_targets, new_targets,
                                   delivered)
        /\ event_docs' =
              IF ~existing /\ save_ok
              THEN (m :> EventDoc(event.sender, event.subject,
                                  IF final_targets # {} THEN final_targets ELSE BlockRoute,
                                  cat)) @@ event_docs
              ELSE event_docs
        /\ processed' = st.processed
        /\ recent_content' = st.recent_content
        /\ throttling' = st.throttling
        /\ UNCHANGED <<backend, now, markVars, muteVars, block_call, later_count>>

\* the mail the batches fetch again and again
RetryMail == MailEvent("m1", <<"u", "@", "n">>, <<"a", " ", "b">>)

\* U1's mute entry for that sender and pattern
RetryPrefs == { Pref("U1", <<"u", "@", "n">>, <<"a", " ", "b">>) }

\* the first batch has fetched the mail
RetryInit ==
    /\ user_feedback \in {{}, RetryPrefs}
    /\ mute_call = NoMuteCall
    /\ event_docs = EmptyDict
    /\ block_call = NoBlockCall
    /\ later_call = LaterCall("filter", RetryMail, ExtractEmailTypePattern(RetryMail.subject),
                              {}, FALSE, {}, "none", {}, {}, {})
    /\ later_count = 1

\* the stored event: "m1" from "u@n" (or without a sender) with the subject
\* "a b", recorded for U1 or for all three targets
BlockDocs ==
    { EventDoc(s, <<"a", " ", "b">>, ts, c) :
        s \in { <<"u", "@", "n">>, <<>> },
        ts \in { {"U1"}, {"U1", "W1", "C1"} },
        c \in {NOTIFY, SILENT} }

\* the mails of the later batches: "m1" again, "m2" from " U@N " with the
\* same subject, "m3" from "u@b"
LaterMails ==
    { MailEvent("m1", <<"u", "@", "n">>, <<"a", " ", "b">>),
      MailEvent("m2", <<" ", "U", "@", "N", " ">>, <<"a", " ", "b">>),
      MailEvent("m3", <<"u", "@", "b">>, <<"a", " ", "b">>) }

\* what the classifier answers: notify, or silent with an override for U1
LaterJudgments == { <<NOTIFY, EmptyDict>>, <<SILENT, [t \in {"U1"} |-> "notify"]>> }

\* the file store, empty, with room for the three targets
BlockStoreInit ==
    /\ backend = "file"
    /\ now = 0
    /\ processed = {}
    /\ recent_content = [t \in BlockRoute |-> <<>>]
    /\ throttling = EmptyDict
    /\ mark_calls = EmptyDict
    /\ rec_at = EmptyDict

BlockInit ==
    /\ event_docs \in { [m \in {"m1"} |-> doc] : doc \in BlockDocs }
    /\ block_call = NoBlockCall
    /\ later_call = NoLaterCall
    /\ later_count = 0

BlockQuiet ==
    /\ event_docs = EmptyDict
    /\ block_call = NoBlockCall
    /\ later_call = NoLaterCall
    /\ later_count = 0

(***************************************************************************)
(* The TTL caches under concurrent callers:                                *)
(* app/services/routing_store.py, app/services/settings_store.py           *)
(***************************************************************************)

\* self.cache_ttl, in ticks of the clock
CACHE_TTL == 2

\* how far the clock runs
MaxClock == 7

\* how many contents the primary store goes through
MaxVersions == 2

CacheCallers == {"t1", "t2"}

\* a cache content: the store content it was built from (0: the content
\* the object starts with); whole is false for a new_cache under
\* construction
Content(version, whole) == [version |-> version, whole |-> whole]

\* what _load_from_firestore meets: no client, an exception of the query,
\* an exception while the result is read, a settings document that does not
\* exist, or a result
LoadOutcomes(kind) ==
    {"no_client", "query_error", "read_error", "ok"}
        \cup (IF kind = "settings" THEN {"missing"} ELSE {})

\* a calling thread.  now: its time.time(); seen: self.last_updated at its
\* first test; skipped: it took the lock and found the cache refreshed;
\* outcome: what its load met; before: the cache when its load began;
\* new_cache: its local new_cache; answer: the cache it read
Caller(pc, now_, seen, skipped, outcome, before, new_cache, answer) ==
    [pc |-> pc, now |-> now_, seen |-> seen, skipped |-> skipped, outcome |-> outcome,
     before |-> before, new_cache |-> new_cache, answer |-> answer]

NoContent == Content(-1, TRUE)

IdleCaller == Caller("idle", 0, 0, FALSE, "none", NoContent, NoContent, NoContent)

\* a _load_from_firestore run: who, the clock when it began, last_updated
\* then
Load(by, at, prev) == [by |-> by, at |-> at, prev |-> prev]

\* now - self.last_updated > self.cache_ttl
Stale(now_, updated) == now_ - updated > CACHE_TTL

\* get_targets_for_gmail / get_setting: _refresh..., "now = time.time()"
\* and the first test
CacheCall(c) ==
    /\ callers[c].pc = "idle"
    /\ callers' = [callers EXCEPT ![c] =
                      Caller(IF Stale(clock, last_updated) THEN "wait" ELSE "read",
                             clock, last_updated, FALSE, "none", NoContent, NoContent,
                             NoContent)]
    /\ UNCHANGED <<cache_kind, clock, source_version, cache_content, last_updated, lock, loads>>

\* A variant of the refresh that loads whenever it holds the lock
CacheAcquireNoRecheck(c) ==
    /\ callers[c].pc = "wait"
    /\ lock = "free"
    /\ lock' = c
    /\ callers' = [callers EXCEPT ![c].pc = "load"]
    /\ UNCHANGED <<cache_kind, clock, source_version, cache_content, last_updated, loads>>

\* "with self._lock:" and the second test, made with the caller's own now
CacheAcquire(c) ==
    /\ callers[c].pc = "wait"
    /\ lock = "free"
    /\ IF Stale(callers[c].now, last_updated)
       THEN /\ lock' = c
            /\ callers' = [callers EXCEPT ![c].pc = "load"]
       ELSE /\ lock' = "free"
            /\ callers' = [callers EXCEPT ![c].pc = "read", ![c].skipped = TRUE]
    /\ UNCHANGED <<cache_kind, clock, source_version, cache_content, last_updated, loads>>

\* A variant of _load_from_firestore that empties the cache before it
\* queries the store
CacheLoadClearsFirst(c, outcome) ==
    /\ callers[c].pc = "load"
    /\ outcome \in LoadOutcomes(cache_kind)
    /\ loads' = Append(loads, Load(c, clock, last_updated))
    /\ cache_content' = Content(0, TRUE)
    /\ callers' = [callers EXCEPT
                     ![c].outcome = outcome,
                     ![c].before = cache_content,
                     ![c].pc = IF outcome \in {"ok", "read_error"} THEN "build" ELSE "stamp",
                     ![c].new_cache = IF outcome \in {"ok", "read_error"}
                                      THEN Content(source_version, FALSE)
                                      ELSE NoContent]
    /\ UNCHANGED <<cache_kind, clock, source_version, last_updated, lock>>

\* _load_from_firestore, to the query: without a client it returns, an
\* exception is caught and logged; otherwise the result is read into a
\* local
CacheLoad(c, outcome) ==
    /\ callers[c].pc = "load"
    /\ outcome \in LoadOutcomes(cache_kind)
    /\ loads' = Append(loads, Load(c, clock, last_updated))
    /\ callers' = [callers EXCEPT
                     ![c].outcome = outcome,
                     ![c].before = cache_content,
                     ![c].pc = IF outcome \in {"ok", "read_error"} THEN "build" ELSE "stamp",
                     ![c].new_cache = IF outcome \in {"ok", "read_error"}
                                      THEN Content(source_version, FALSE)
                                      ELSE NoContent]
    /\ UNCHANGED <<cache_kind, clock, source_version, cache_content, last_updated, lock>>

\* _load_from_firestore, the rest: "self.cache = new_cache" /
\* "self.settings = doc.to_dict()" once the result is read whole; an
\* exception before that leaves the cache
CacheAssign(c) ==
    /\ callers[c].pc = "build"
    /\ cache_content' = IF callers[c].outcome = "ok"
                THEN Content(callers[c].new_cache.version, TRUE)
                ELSE cache_content
    /\ callers' = [callers EXCEPT ![c].pc = "stamp"]
    /\ UNCHANGED <<cache_kind, clock, source_version, last_updated, lock, loads>>

\* "self.last_updated = time.time()" and the end of the with block
CacheStamp(c) ==
    /\ callers[c].pc = "stamp"
    /\ last_updated' = clock
    /\ lock' = "free"
    /\ callers' = [callers EXCEPT ![c].pc = "read"]
    /\ UNCHANGED <<cache_kind, clock, source_version, cache_content, loads>>

\* "self.cache.get(...)" / "return self.settings": the caller is answered
CacheRead(c) ==
    /\ callers[c].pc = "read"
    /\ callers' = [callers EXCEPT ![c].pc = "idle", ![c].answer = cache_content]
    /\ UNCHANGED <<cache_kind, clock, source_version, cache_content, last_updated, lock, loads>>

\* time passes
ClockTick ==
    /\ clock < MaxClock
    /\ clock' = clock + 1
    /\ UNCHANGED <<cache_kind, source_version, cache_content, last_updated, lock, callers, loads>>

\* the primary store gets another content
SourceChanges ==
    /\ source_version < MaxVersions
    /\ source_version' = source_version + 1
    /\ UNCHANGED <<cache_kind, clock, cache_content, last_updated, lock, callers, loads>>

\* the object as _init_store leaves it (last_updated = 0, long ago)
CacheInit ==
    /\ cache_kind \in {"routing", "settings"}
    /\ clock = CACHE_TTL + 1
    /\ source_version = 1
    /\ cache_content = Content(0, TRUE)
    /\ last_updated = 0
    /\ lock = "free"
    /\ callers = [c \in CacheCallers |-> IdleCaller]
    /\ loads = <<>>

CacheQuiet ==
    /\ cache_kind = "routing"
    /\ clock = CACHE_TTL + 1
    /\ source_version = 1
    /\ cache_content = Content(0, TRUE)
    /\ last_updated = 0
    /\ lock = "free"
    /\ callers = [c \in CacheCallers |-> IdleCaller]
    /\ loads = <<>>

(***************************************************************************)
(* Processors racing for one (message, target): app/main.py 340-354        *)
(***************************************************************************)

\* two workers (or instances) handling the same mail for the same target
Processors == {"p1", "p2"}

RaceEvent == MailEvent("m1", <<"u", "@", "n">>, <<"h", "i">>)
RaceTarget == "U1"

\* new_targets = [t for t in final_targets if not is_processed(...) and
\* not is_duplicate_by_content(...)]; okp, okd: the reads reach the store
RaceCheck(p, okp, okd) ==
    LET new_targets == NewTargets(backend, TheStore, RaceEvent, {RaceTarget}, now,
                                  IF okp THEN {RaceTarget} ELSE {},
                                  IF okd THEN {RaceTarget} ELSE {})
    IN  /\ race_pc[p] = "start"
        /\ race_pc' = [race_pc EXCEPT ![p] = IF new_targets = {} THEN "skipped" ELSE "deliver"]
        /\ UNCHANGED <<storeVars, markVars, race_sent, race_marks, race_batch>>

\* slack_service.send_notification(new_targets, ...): on failure the call
\* returns without a mark
RaceDeliver(p, send_ok) ==
    /\ race_pc[p] = "deliver"
    /\ race_sent' = IF send_ok THEN Append(race_sent, <<p, race_batch>>) ELSE race_sent
    /\ race_pc' = [race_pc EXCEPT ![p] = IF send_ok THEN "mark" ELSE "failed"]
    /\ UNCHANGED <<storeVars, markVars, race_marks, race_batch>>

\* A variant in which each processor marks under an id of its own
RaceMarkOwnId(p, reached) ==
    LET st == MarkProcessed(backend, TheStore, IF p = "p1" THEN "m1" ELSE "m2", RaceTarget,
                            RaceEvent.sender, RaceEvent.subject, now, reached)
    IN  /\ race_pc[p] = "mark"
        /\ processed' = st.processed
        /\ recent_content' = st.recent_content
        /\ throttling' = st.throttling
        /\ race_marks' = Append(race_marks, [by |-> p, at |-> now, reached |-> reached])
        /\ race_pc' = [race_pc EXCEPT ![p] = "done"]
        /\ UNCHANGED <<backend, now, markVars, race_sent, race_batch>>

\* state_store.mark_processed(event.message_id, t.target_id, sender, subject)
RaceMark(p, reached) ==
    LET st == MarkProcessed(backend, TheStore, RaceEvent.message_id, RaceTarget,
                            RaceEvent.sender, RaceEvent.subject, now, reached)
    IN  /\ race_pc[p] = "mark"
        /\ processed' = st.processed
        /\ recent_content' = st.recent_content
        /\ throttling' = st.throttling
        /\ race_marks' = Append(race_marks, [by |-> p, at |-> now, reached |-> reached])
        /\ race_pc' = [race_pc EXCEPT ![p] = "done"]
        /\ UNCHANGED <<backend, now, markVars, race_sent, race_batch>>

RaceInit ==
    /\ race_pc = [p \in Processors |-> "start"]
    /\ race_sent = <<>>
    /\ race_marks = <<>>
    /\ race_batch = 1

RaceQuiet == RaceInit

(***************************************************************************)
(* One instance, batch after batch, on one unread mail                     *)
(* (process_single_event with every store call able to fail)              *)
(***************************************************************************)

\* how many batches fetch the mail
MaxSeqBatches == 3

\* Router.get_targets for the mail: the user U1 and the channel C1
SeqRoute == {"U1", "C1"}

\* where a process_single_event stands ("fetched", "deliver", "mark",
\* "returned"), the inputs of its store calls and what it computed
SeqCall(pc, pattern, existing, category, overrides, read_ok, save_ok, inc_ok, final_targets, new_targets, attempted, delivered, notification_sent) ==
    [pc |-> pc, pattern |-> pattern, existing |-> existing, category |-> category,
     overrides |-> overrides, read_ok |-> read_ok, save_ok |-> save_ok, inc_ok |-> inc_ok,
     final_targets |-> final_targets, new_targets |-> new_targets,
     attempted |-> attempted, delivered |-> delivered,
     notification_sent |-> notification_sent]

\* the event as run_batch submits it
SeqFetched(pattern) ==
    SeqCall("fetched", pattern, FALSE, "none", EmptyDict, {}, FALSE, FALSE, {}, {}, {}, {},
            FALSE)

\* should_silence_for_user for each user target; read_ok: the users whose
\* preference query reaches the store
SeqSilenced(event, pattern, read_ok) ==
    { t \in SeqRoute \cap UserTargets :
        ShouldSilence(GetUserSilentPreferences(user_feedback, t, t \in read_ok),
                      Strip(Lower(event.sender)), pattern) }

\* A variant of process_single_event that gives up the delivery when the
\* snapshot cannot be written
SeqSelectStopsOnSaveFailure(event_read, category, user_overrides, read_ok, save_ok, inc_ok) ==
    LET event == RetryMail
        m == event.message_id
        existing == event_read /\ m \in DOMAIN snapshots
        cat == IF existing THEN CachedAnalysis(snapshots[m]).category ELSE category
        ov == IF existing THEN EmptyDict ELSE user_overrides
        silenced == SeqSilenced(event, seq_call.pattern, read_ok)
        final_targets == IF ~existing /\ ~save_ok THEN {}
                         ELSE FinalTargets(SeqRoute, silenced, cat, ov)
        new_targets == NewTargets(backend, TheStore, event, final_targets, now,
                                  final_targets, final_targets)
        counted == ~existing /\ settings_db /\ inc_ok
    IN  /\ seq_call.pc = "fetched"
        /\ snapshots' = IF ~existing /\ save_ok
                        THEN (m :> Snapshot(cat, 0)) @@ snapshots
                        ELSE snapshots
        /\ usage_doc' = IF counted
                        THEN [exists |-> TRUE, calls |-> usage_doc.calls + 1,
                              cost_usd |-> usage_doc.cost_usd]
                        ELSE usage_doc
        /\ suppressed' = IF ~existing /\ save_ok
                         THEN { t \in SeqRoute : t \in DOMAIN ov /\ ov[t] = "silent" }
                         ELSE suppressed
        /\ seq_call' = SeqCall(IF new_targets = {} THEN "returned" ELSE "deliver",
                               seq_call.pattern, existing, cat, ov, read_ok, save_ok, inc_ok,
                               final_targets, new_targets, {}, {}, FALSE)
        /\ UNCHANGED <<delivery_count, seq_batches>>

\* process_single_event up to the dedup filter.  event_read: get_email_event
\* reaches the store; category, user_overrides: what the classifier answers
\* for a mail without a stored event (the judgment service was called and
\* reported its usage); read_ok: the users whose preference query reaches
\* the store; save_ok, inc_ok: the snapshot write and the usage increment do.
\* suppressed: the targets the stored analysis named "silent".
SeqSelect(event_read, category, user_overrides, read_ok, save_ok, inc_ok) ==
    LET event == RetryMail
        m == event.message_id
        existing == event_read /\ m \in DOMAIN snapshots
        cat == IF existing THEN CachedAnalysis(snapshots[m]).category ELSE category
        ov == IF existing THEN EmptyDict ELSE user_overrides
        silenced == SeqSilenced(event, seq_call.pattern, read_ok)
        final_targets == FinalTargets(SeqRoute, silenced, cat, ov)
        new_targets == NewTargets(backend, TheStore, event, final_targets, now,
                                  final_targets, final_targets)
        counted == ~existing /\ settings_db /\ inc_ok
    IN  /\ seq_call.pc = "fetched"
        /\ snapshots' = IF ~existing /\ save_ok
                        THEN (m :> Snapshot(cat, 0)) @@ snapshots
                        ELSE snapshots
        /\ usage_doc' = IF counted
                        THEN [exists |-> TRUE, calls |-> usage_doc.calls + 1,
                              cost_usd |-> usage_doc.cost_usd]
                        ELSE usage_doc
        /\ suppressed' = IF ~existing /\ save_ok
                         THEN { t \in SeqRoute : t \in DOMAIN ov /\ ov[t] = "silent" }
                         ELSE suppressed
        /\ seq_call' = SeqCall(IF new_targets = {} THEN "returned" ELSE "deliver",
                               seq_call.pattern, existing, cat, ov, read_ok, save_ok, inc_ok,
                               final_targets, new_targets, {}, {}, FALSE)
        /\ UNCHANGED <<delivery_count, seq_batches>>

\* slack_service.send_notification(new_targets, ...): every target is
\* tried; failing: the targets Slack refuses
SeqSend(failing) ==
    LET c == seq_call
        delivered == c.new_targets \ failing
        sent == SendNotification(c.new_targets, failing)
    IN  /\ c.pc = "deliver"
        /\ delivery_count' = [t \in SeqRoute |->
                                 delivery_count[t] + (IF t \in delivered THEN 1 ELSE 0)]
        /\ seq_call' = [c EXCEPT !.pc = IF sent THEN "mark" ELSE "returned",
                                 !.attempted = c.new_targets,
                                 !.delivered = delivered]
        /\ UNCHANGED <<snapshots, usage_doc, suppressed, seq_batches>>

\* the marks after a send that reported success, and the return.  reached:
\* per target, how many of mark_processed's writes reach the store
SeqMark(reached) ==
    LET c == seq_call
        event == RetryMail
        st == MarkAll(backend, TheStore, event.message_id, c.new_targets, event.sender,
                      event.subject, now, reached)
    IN  /\ c.pc = "mark"
        /\ SetStore(st)
        /\ seq_call' = [c EXCEPT !.pc = "returned", !.notification_sent = TRUE]
        /\ UNCHANGED <<snapshots, usage_doc, suppressed, delivery_count, seq_batches>>

\* the next run_batch fetches the mail, still unread, again
SeqFetch ==
    /\ seq_call.pc = "returned"
    /\ seq_batches < MaxSeqBatches
    /\ seq_batches' = seq_batches + 1
    /\ seq_call' = SeqFetched(seq_call.pattern)
    /\ UNCHANGED <<snapshots, usage_doc, suppressed, delivery_count>>

\* what the classifier answers: notify, notify with U1 named silent, silent
\* with U1 named notify
SeqJudgments ==
    { <<NOTIFY, EmptyDict>>,
      <<NOTIFY, [t \in {"U1"} |-> "silent"]>>,
      <<SILENT, [t \in {"U1"} |-> "notify"]>> }

\* the first batch has fetched the mail
SeqInit ==
    /\ seq_call = SeqFetched(ExtractEmailTypePattern(RetryMail.subject))
    /\ delivery_count = [t \in SeqRoute |-> 0]
    /\ suppressed = {}
    /\ seq_batches = 1

SeqQuiet ==
    /\ seq_call = SeqFetched(<<>>)
    /\ delivery_count = [t \in SeqRoute |-> 0]
    /\ suppressed = {}
    /\ seq_batches = 1

(***************************************************************************)
(* The worker threads of one batch (run_batch's ThreadPoolExecutor) on the *)
(* one Classifier / LLMService instance and the one snapshot store         *)
(***************************************************************************)

\* how many batches submit the events
MaxWorkerBatches == 2

WorkerThreads == {"w1", "w2"}

\* the usage the judgment service reports for the call made by thread w
UsageOf(w) == IF w = "w1" THEN "usage_w1" ELSE "usage_w2"

\* where a thread stands in process_single_event ("start", "new",
\* "calling", "analyzed", "read", "done"), whether get_email_event found a
\* snapshot, whether its judgment call succeeded, the llm_usage it read
WorkerCall(pc, message_id, existing, call_ok, llm_usage) ==
    [pc |-> pc, message_id |-> message_id, existing |-> existing, call_ok |-> call_ok,
     llm_usage |-> llm_usage]

\* existing_event = get_email_event(event.message_id), the store reachable;
\* a stored event: the cached branch, llm_usage = None
WkLookup(w) ==
    LET c == wk_call[w]
        existing == c.message_id \in DOMAIN snapshots
    IN  /\ c.pc = "start"
        /\ wk_call' = [wk_call EXCEPT ![w] =
                          WorkerCall(IF existing THEN "read" ELSE "new", c.message_id,
                                     existing, FALSE, "none")]
        /\ UNCHANGED <<last_usage, snapshots, judge_calls, usage_incs, wk_batches>>

\* classifier.classify -> LLMService.analyze_email, its first statement:
\* self.last_usage = None
WkAnalyzeBegin(w) ==
    /\ wk_call[w].pc = "new"
    /\ last_usage' = "none"
    /\ wk_call' = [wk_call EXCEPT ![w].pc = "calling"]
    /\ UNCHANGED <<snapshots, judge_calls, usage_incs, wk_batches>>

\* analyze_email, client.messages.create and what follows it.  ok: the call
\* and the parsing succeed, and self.last_usage is set from the response
WkAnalyzeEnd(w, ok) ==
    LET c == wk_call[w]
    IN  /\ c.pc = "calling"
        /\ judge_calls' = [judge_calls EXCEPT ![c.message_id] = @ + 1]
        /\ last_usage' = IF ok THEN UsageOf(w) ELSE last_usage
        /\ wk_call' = [wk_call EXCEPT ![w].pc = "analyzed", ![w].call_ok = ok]
        /\ UNCHANGED <<snapshots, usage_incs, wk_batches>>

\* llm_usage = classifier.get_last_llm_usage()
WkReadUsage(w) ==
    /\ wk_call[w].pc = "analyzed"
    /\ wk_call' = [wk_call EXCEPT ![w].pc = "read", ![w].llm_usage = last_usage]
    /\ UNCHANGED <<last_usage, snapshots, judge_calls, usage_incs, wk_batches>>

\* the snapshot (should_save is "not existing_event") and, with it,
\* increment_daily_usage(calls=1, tokens of llm_usage) when llm_usage holds
\* tokens; the store is reachable
WkSave(w) ==
    LET c == wk_call[w]
    IN  /\ c.pc = "read"
        /\ snapshots' = IF ~c.existing
                        THEN (c.message_id :> Snapshot(NOTIFY, 0)) @@ snapshots
                        ELSE snapshots
        /\ usage_incs' = IF ~c.existing /\ c.llm_usage # "none"
                         THEN Append(usage_incs, c.llm_usage)
                         ELSE usage_incs
        /\ wk_call' = [wk_call EXCEPT ![w].pc = "done"]
        /\ UNCHANGED <<last_usage, judge_calls, wk_batches>>

\* every future has completed; the next run_batch fetches the same events
WkNextBatch ==
    /\ \A w \in WorkerThreads : wk_call[w].pc = "done"
    /\ wk_batches < MaxWorkerBatches
    /\ wk_batches' = wk_batches + 1
    /\ wk_call' = [w \in WorkerThreads |->
                      WorkerCall("start", wk_call[w].message_id, FALSE, FALSE, "none")]
    /\ usage_incs' = <<>>
    /\ UNCHANGED <<last_usage, snapshots, judge_calls>>

\* the events of the batch: one message unread in two mailboxes, or two
\* messages
WkInit ==
    /\ wk_call \in { [w \in WorkerThreads |->
                         WorkerCall("start", IF w = "w1" THEN "m1" ELSE m, FALSE, FALSE,
                                    "none")] : m \in {"m1", "m2"} }
    /\ judge_calls = [m \in {"m1", "m2"} |-> 0]
    /\ usage_incs = <<>>
    /\ wk_batches = 1

WkQuiet ==
    /\ wk_call = [w \in WorkerThreads |-> WorkerCall("start", "m1", FALSE, FALSE, "none")]
    /\ judge_calls = [m \in {"m1", "m2"} |-> 0]
    /\ usage_incs = <<>>
    /\ wk_batches = 1

(***************************************************************************)
(* FileStateStore.mark_processed run by the worker threads of a batch on   *)
(* the one module-level store, statement by statement                      *)
(***************************************************************************)

MarkThreads == {"t1", "t2"}

\* the pairs the two threads mark: two targets of one message, one target of
\* two messages, or the same pair
MarkPairs ==
    { [t1 |-> <<"m1", "U1">>, t2 |-> <<"m1", "C1">>],
      [t1 |-> <<"m1", "U1">>, t2 |-> <<"m2", "U1">>],
      [t1 |-> <<"m1", "U1">>, t2 |-> <<"m1", "U1">>] }

\* target_id in list
InList(x, list) == \E i \in 1..Len(list) : list[i] = x

\* FileStateStore.is_processed on a state dict
FileIsProcessed(state, message_id, target_id) ==
    message_id \in DOMAIN state /\ InList(target_id, state[message_id])

\* "if message_id not in self.state['processed_ids']": the test
FmTestMessage(w) ==
    /\ fm_pc[w] = "start"
    /\ fm_pc' = [fm_pc EXCEPT ![w] = IF fm_args[w][1] \notin DOMAIN fm_ids
                                     THEN "new_list" ELSE "test_target"]
    /\ UNCHANGED <<fm_args, fm_ids, fm_recent, fm_file>>

\* "self.state['processed_ids'][message_id] = []"
FmNewList(w) ==
    /\ fm_pc[w] = "new_list"
    /\ fm_ids' = (fm_args[w][1] :> <<>>) @@ fm_ids
    /\ fm_pc' = [fm_pc EXCEPT ![w] = "test_target"]
    /\ UNCHANGED <<fm_args, fm_recent, fm_file>>

\* "if target_id not in self.state['processed_ids'][message_id]": the test;
\* a target already listed ends the call
FmTestTarget(w) ==
    /\ fm_pc[w] = "test_target"
    /\ fm_pc' = [fm_pc EXCEPT ![w] =
                    IF InList(fm_args[w][2], fm_ids[fm_args[w][1]]) THEN "done"
                    ELSE "append"]
    /\ UNCHANGED <<fm_args, fm_ids, fm_recent, fm_file>>

\* "self.state['processed_ids'][message_id].append(target_id)"
FmAppend(w) ==
    /\ fm_pc[w] = "append"
    /\ fm_ids' = [fm_ids EXCEPT ![fm_args[w][1]] = Append(@, fm_args[w][2])]
    /\ fm_pc' = [fm_pc EXCEPT ![w] = "content"]
    /\ UNCHANGED <<fm_args, fm_recent, fm_file>>

\* the recent_content entry for the target (sender and subject are given)
FmContent(w) ==
    /\ fm_pc[w] = "content"
    /\ fm_recent' = fm_recent \cup {fm_args[w][2]}
    /\ fm_pc' = [fm_pc EXCEPT ![w] = "save"]
    /\ UNCHANGED <<fm_args, fm_ids, fm_file>>

\* self._save(): json.dump(self.state); ok: the file is written
FmSave(w, ok) ==
    /\ fm_pc[w] = "save"
    /\ fm_file' = IF ok THEN fm_ids ELSE fm_file
    /\ fm_pc' = [fm_pc EXCEPT ![w] = "done"]
    /\ UNCHANGED <<fm_args, fm_ids, fm_recent>>

FmInit ==
    /\ fm_args \in MarkPairs
    /\ fm_pc = [w \in MarkThreads |-> "start"]
    /\ fm_ids \in {EmptyDict, [m \in {"m1"} |-> <<"W1">>]}
    /\ fm_recent = {}
    /\ fm_file = EmptyDict

FmQuiet ==
    /\ fm_args = [t1 |-> <<"m1", "U1">>, t2 |-> <<"m1", "C1">>]
    /\ fm_pc = [w \in MarkThreads |-> "start"]
    /\ fm_ids = EmptyDict
    /\ fm_recent = {}
    /\ fm_file = EmptyDict

(***************************************************************************)
(* Specifications                                                          *)
(***************************************************************************)

GovQuiet == control_doc = NoDoc /\ usage_doc = NoUsage

MuteQuiet == user_feedback = {} /\ mute_call = NoMuteCall

RouterQuiet == ROUTING_SOURCE = "firestore" /\ routing_cache = EmptyDict /\ route_call = NoRouteCall

SlackQuiet == SlackInit

PriorQuiet == prior_call = NoPriorCall

AuxQuiet == MuteQuiet /\ RouterQuiet /\ SlackQuiet /\ PriorQuiet /\ LearnQuiet /\ TtlQuiet /\ TripQuiet /\ BlockQuiet /\ CacheQuiet /\ RaceQuiet /\ SeqQuiet /\ WkQuiet /\ FmQuiet

ClsQuiet == spam_file = DefaultSpamFile /\ client_ok = TRUE

InitClassify ==
    /\ SetInit /\ GovInit /\ GovQuiet /\ ClsInit /\ StoreInit /\ StoreQuiet /\ OrchInit /\ OrchQuiet
    /\ AuxQuiet

NextClassify ==
    \/ \E doc \in SettingsDocs : ClsIdle /\ AdminWritesSettings(doc) /\ UNCHANGED <<govVars, storeVars, markVars, auxVars, orchVars, clsVars>>
    \/ ClsIdle /\ SettingsTtlElapses /\ UNCHANGED <<govVars, storeVars, markVars, auxVars, orchVars, clsVars>>
    \/ \E e \in ClsEvents, out \in LLMOutcomes, load_ok \in BOOLEAN :
           ClassifyCall(e, out, load_ok) /\ UNCHANGED <<govVars, storeVars, markVars, auxVars, orchVars>>
    \/ ClassifyReturn /\ UNCHANGED <<setVars, govVars, storeVars, markVars, auxVars, orchVars>>
    \/ \E doc \in StoredEvents :
           ClsIdle /\ ReuseCached(doc) /\ UNCHANGED <<setVars, govVars, storeVars, markVars, auxVars, orchVars>>
    \/ ReuseReturn /\ UNCHANGED <<setVars, govVars, storeVars, markVars, auxVars, orchVars>>

SpecClassify == InitClassify /\ [][NextClassify]_vars

InitGov ==
    /\ SetInit /\ GovInit /\ ClsInit /\ ClsQuiet /\ StoreInit /\ StoreQuiet /\ OrchInit /\ OrchQuiet
    /\ AuxQuiet

NextGov ==
    \/ \E en \in BOOLEAN, reason \in {"", "maintenance"} :
           ~gov_called /\ SetSystemEnabled(en, reason)
           /\ GovUnchangedCall /\ UNCHANGED <<setVars, storeVars, markVars, auxVars, orchVars, clsVars>>
    \/ \E lc \in {0, 2}, lu \in {0, 2} :
           ~gov_called /\ SetDailyLimits(lc, lu)
           /\ GovUnchangedCall /\ UNCHANGED <<setVars, storeVars, markVars, auxVars, orchVars, clsVars>>
    \/ \E cost \in {0, 1} :
           ~gov_called /\ UsageWithinBounds /\ IncrementDailyUsage(1, cost)
           /\ GovUnchangedCall /\ UNCHANGED <<setVars, storeVars, markVars, auxVars, orchVars, clsVars>>
    \/ ~gov_called /\ DayRolls /\ GovUnchangedCall /\ UNCHANGED <<setVars, storeVars, markVars, auxVars, orchVars, clsVars>>
    \/ \E ok1 \in BOOLEAN, ok2 \in BOOLEAN, ok3 \in BOOLEAN :
           GovCheck(ok1, ok2, ok3) /\ UNCHANGED <<setVars, storeVars, markVars, auxVars, orchVars, clsVars>>
    \/ GovReturn /\ UNCHANGED <<setVars, storeVars, markVars, auxVars, orchVars, clsVars>>

SpecGov == InitGov /\ [][NextGov]_vars

InitStore ==
    /\ SetInit /\ settings_db = TRUE /\ GovInit /\ GovQuiet /\ ClsInit /\ ClsQuiet
    /\ StoreInit /\ OrchInit /\ OrchQuiet
    /\ AuxQuiet

NextStore ==
    \/ \E a \in MarkCalls, reached \in Reaches :
           StoreMark(a.message_id, a.target_id, a.sender, a.subject, reached)
           /\ UNCHANGED <<setVars, govVars, orchVars, clsVars, auxVars>>
    \/ Tick /\ UNCHANGED <<setVars, govVars, orchVars, clsVars, auxVars>>

SpecStore == InitStore /\ [][NextStore]_vars

InitMute ==
    /\ SetInit /\ settings_db = TRUE /\ GovInit /\ GovQuiet /\ ClsInit /\ ClsQuiet
    /\ StoreInit /\ StoreQuiet /\ OrchInit /\ OrchQuiet
    /\ MuteInit /\ RouterQuiet /\ SlackQuiet /\ PriorQuiet
    /\ LearnQuiet
    /\ TtlQuiet
    /\ TripQuiet
    /\ BlockQuiet
    /\ CacheQuiet
    /\ RaceQuiet
    /\ SeqQuiet
    /\ WkQuiet
    /\ FmQuiet

MuteUnchanged ==
    UNCHANGED <<setVars, govVars, storeVars, markVars, orchVars, clsVars, routerVars,
                slackVars, priorVars,
                learnVars,
                ttlVars,
                tripVars,
                blockVars,
                cacheVars,
                raceVars,
                seqVars,
                wkVars,
                fmVars>>

NextMute ==
    \/ \E u \in MuteUsers, s \in MuteSenders, j \in SavedSubjects, db_ok \in BOOLEAN :
           /\ mute_call = NoMuteCall
           /\ Cardinality(user_feedback) < MaxFeedback
           /\ SaveUserSilentPreference(u, s, j, db_ok)
           /\ MuteUnchanged
    \/ \E u \in MuteUsers, s \in MuteSenders, j \in SavedSubjects, db_ok \in BOOLEAN :
           /\ mute_call = NoMuteCall
           /\ DeleteUserSilentPreference(u, s, j, db_ok)
           /\ MuteUnchanged
    \/ \E e \in MuteEvents : FilterBegin(e, Targets) /\ MuteUnchanged
    \/ \E category \in {NOTIFY, SILENT}, ov \in MuteOverrides, read_ok \in SUBSET UserTargets :
           FilterTargets(category, ov, read_ok) /\ MuteUnchanged
    \/ FilterReturn /\ MuteUnchanged

SpecMute == InitMute /\ [][NextMute]_vars

InitSlack ==
    /\ SetInit /\ settings_db = TRUE /\ GovInit /\ GovQuiet /\ ClsInit /\ ClsQuiet
    /\ StoreInit /\ StoreQuiet /\ OrchInit /\ OrchQuiet
    /\ user_feedback \in {{}, LegacyPrefs} /\ mute_call = NoMuteCall
    /\ RouterQuiet /\ SlackInit /\ PriorQuiet
    /\ LearnQuiet
    /\ TtlQuiet
    /\ TripQuiet
    /\ BlockQuiet
    /\ CacheQuiet
    /\ RaceQuiet
    /\ SeqQuiet
    /\ WkQuiet
    /\ FmQuiet

SlackUnchanged ==
    UNCHANGED <<setVars, govVars, storeVars, markVars, orchVars, clsVars, routerVars,
                priorVars,
                learnVars,
                ttlVars,
                tripVars,
                blockVars,
                cacheVars,
                raceVars,
                seqVars,
                wkVars,
                fmVars>>

NextSlack ==
    \/ \E a \in SlackActions, j \in SlackSubjects, response_url \in BOOLEAN :
         \E value_ok \in BOOLEAN, db_ok \in BOOLEAN :
           SlackInteractive(a, j, response_url, value_ok, db_ok) /\ SlackUnchanged
    \/ SlackReturn /\ SlackUnchanged
    \/ ThreadStep /\ SlackUnchanged

SpecSlack == InitSlack /\ [][NextSlack]_vars

\* the threads are not daemon threads and nothing stops one: a started
\* thread that can take a step takes it
SpecSlackFair == SpecSlack /\ WF_vars(ThreadStep /\ SlackUnchanged)

InitPrior ==
    /\ SetInit /\ settings_db = TRUE /\ GovInit /\ GovQuiet /\ ClsInit /\ ClsQuiet
    /\ StoreInit /\ StoreQuiet /\ OrchInit /\ OrchQuiet
    /\ MuteQuiet /\ RouterQuiet /\ SlackQuiet /\ PriorInit
    /\ LearnQuiet
    /\ TtlQuiet
    /\ TripQuiet
    /\ BlockQuiet
    /\ CacheQuiet
    /\ RaceQuiet
    /\ SeqQuiet
    /\ WkQuiet
    /\ FmQuiet

PriorUnchanged ==
    UNCHANGED <<setVars, govVars, storeVars, markVars, orchVars, clsVars, muteVars,
                routerVars, slackVars,
                learnVars,
                ttlVars,
                tripVars,
                blockVars,
                cacheVars,
                raceVars,
                seqVars,
                wkVars,
                fmVars>>

NextPrior ==
    \/ \E scores \in ScoreLists(MaxScores), positive_threshold \in PriorThresholds :
         CalculatePrior(scores, positive_threshold) /\ PriorUnchanged
    \/ PriorReturn /\ PriorUnchanged

SpecPrior == InitPrior /\ [][NextPrior]_vars

InitLearn ==
    /\ SetInit /\ settings_db = TRUE /\ GovInit /\ GovQuiet /\ ClsInit /\ ClsQuiet
    /\ StoreInit /\ StoreQuiet /\ OrchInit /\ OrchQuiet
    /\ MuteQuiet /\ RouterQuiet /\ SlackQuiet /\ PriorQuiet /\ LearnInit
    /\ TtlQuiet
    /\ TripQuiet
    /\ BlockQuiet
    /\ CacheQuiet
    /\ RaceQuiet
    /\ SeqQuiet
    /\ WkQuiet
    /\ FmQuiet

LearnUnchanged ==
    UNCHANGED <<setVars, govVars, storeVars, markVars, orchVars, clsVars, muteVars,
                routerVars, slackVars, priorVars,
                ttlVars,
                tripVars,
                blockVars,
                cacheVars,
                raceVars,
                seqVars,
                wkVars,
                fmVars>>

NextLearn ==
    \/ \E db_ok \in BOOLEAN, read_ok \in BOOLEAN :
         GetOrgPrior(LearnSender, LearnDomain, db_ok, read_ok) /\ LearnUnchanged
    \/ \E db_ok \in BOOLEAN, read_ok \in BOOLEAN :
         GetUserPrior(LearnUser, LearnSender, LearnDomain, db_ok, read_ok) /\ LearnUnchanged
    \/ GetPriorReturn /\ LearnUnchanged
    \/ \E db_ok \in BOOLEAN, query_ok \in BOOLEAN, senders \in SUBSET LearnSenders :
         UpdateAllPriors(db_ok, query_ok, senders) /\ LearnUnchanged
    \/ \E sender \in LearnSenders, db_ok \in BOOLEAN, query_ok \in BOOLEAN :
         \E mails \in LearnMails, write_ok \in BOOLEAN :
           UpdateNextSender(sender, db_ok, query_ok, mails, write_ok) /\ LearnUnchanged
    \/ UpdateAllPriorsReturn /\ LearnUnchanged

SpecLearn == InitLearn /\ [][NextLearn]_vars

InitExpiry ==
    /\ SetInit /\ settings_db = TRUE /\ GovInit /\ GovQuiet /\ ClsInit /\ ClsQuiet
    /\ StoreInit /\ OrchInit /\ OrchQuiet
    /\ MuteQuiet /\ RouterQuiet /\ SlackQuiet /\ PriorQuiet /\ LearnQuiet /\ TtlInit
    /\ TripQuiet
    /\ BlockQuiet
    /\ CacheQuiet
    /\ RaceQuiet
    /\ SeqQuiet
    /\ WkQuiet
    /\ FmQuiet

ExpiryUnchanged ==
    UNCHANGED <<setVars, govVars, orchVars, clsVars, muteVars, routerVars, slackVars,
                priorVars, learnVars,
                tripVars,
                blockVars,
                cacheVars,
                raceVars,
                seqVars,
                wkVars,
                fmVars>>

NextExpiry ==
    \/ \E m \in StoreMessages, t \in Targets, reached \in Reaches :
         MarkWithExpiry(m, t, reached) /\ ExpiryUnchanged
    \/ \E m \in StoreMessages, t \in Targets, ok \in BOOLEAN :
         CheckProcessed(m, t, ok) /\ ExpiryUnchanged
    \/ CheckProcessedReturn /\ ExpiryUnchanged
    \/ DayPasses /\ ExpiryUnchanged

SpecExpiry == InitExpiry /\ [][NextExpiry]_vars

InitTrip ==
    /\ SetInit /\ settings_db = TRUE /\ GovInit /\ GovQuiet /\ ClsInit /\ ClsQuiet
    /\ StoreInit /\ StoreQuiet /\ OrchInit /\ OrchQuiet
    /\ MuteInit /\ RouterQuiet /\ SlackQuiet /\ PriorQuiet /\ LearnQuiet /\ TtlQuiet
    /\ TripInit
    /\ BlockQuiet
    /\ CacheQuiet
    /\ RaceQuiet
    /\ SeqQuiet
    /\ WkQuiet
    /\ FmQuiet

TripUnchanged ==
    UNCHANGED <<setVars, govVars, storeVars, markVars, orchVars, clsVars, routerVars,
                slackVars, priorVars, learnVars, ttlVars,
                blockVars,
                cacheVars,
                raceVars,
                seqVars,
                wkVars,
                fmVars>>

NextTrip ==
    \/ \E u \in TripUsers, s \in TripSenders, j \in TripSubjects, db_ok \in BOOLEAN :
           SaveCall(u, s, j, db_ok) /\ TripUnchanged
    \/ \E u \in TripUsers, s \in TripSenders, j \in TripSubjects, db_ok \in BOOLEAN :
           DeleteCall(u, s, j, db_ok) /\ TripUnchanged
    \/ \E u \in TripUsers, s \in TripSenders, j \in TripSubjects, read_ok \in BOOLEAN :
           SilenceCall(u, s, j, read_ok) /\ TripUnchanged

SpecTrip == InitTrip /\ [][NextTrip]_vars

InitBlock ==
    /\ SetInit /\ settings_db = TRUE /\ GovInit /\ GovQuiet /\ ClsInit /\ ClsQuiet
    /\ BlockStoreInit /\ OrchInit /\ OrchQuiet
    /\ MuteQuiet /\ RouterQuiet /\ SlackQuiet /\ PriorQuiet /\ LearnQuiet /\ TtlQuiet
    /\ TripQuiet /\ BlockInit
    /\ CacheQuiet
    /\ RaceQuiet
    /\ SeqQuiet
    /\ WkQuiet
    /\ FmQuiet

BlockUnchanged ==
    UNCHANGED <<setVars, govVars, orchVars, clsVars, routerVars, slackVars, priorVars,
                learnVars, ttlVars, tripVars,
                cacheVars,
                raceVars,
                seqVars,
                wkVars,
                fmVars>>

NextBlock ==
    \/ \E email_id \in {"m1", "m9"}, db_ok \in BOOLEAN, read_ok \in BOOLEAN :
           /\ BlockNotification(email_id, db_ok, read_ok)
           /\ UNCHANGED <<storeVars, markVars>>
           /\ BlockUnchanged
    \/ \E saved \in SUBSET {"U1"}, upd_ok \in BOOLEAN :
           /\ BlockLearn(saved, upd_ok)
           /\ UNCHANGED <<storeVars, markVars>>
           /\ BlockUnchanged
    \/ \E event \in LaterMails :
           /\ block_call.pc = "returned"
           /\ later_count < MaxLaterBatches
           /\ ProcessLaterBegin(event)
           /\ UNCHANGED <<storeVars, markVars>>
           /\ BlockUnchanged
    \/ \E event_read \in BOOLEAN, j \in LaterJudgments, read_ok \in {{}, BlockUsers},
          save_ok \in BOOLEAN, send_ok \in BOOLEAN :
           /\ ProcessLater(event_read, j[1], j[2], read_ok, save_ok, send_ok)
           /\ BlockUnchanged

SpecBlock == InitBlock /\ [][NextBlock]_vars

InitCache ==
    /\ SetInit /\ settings_db = TRUE /\ GovInit /\ GovQuiet /\ ClsInit /\ ClsQuiet
    /\ StoreInit /\ StoreQuiet /\ OrchInit /\ OrchQuiet
    /\ MuteQuiet /\ RouterQuiet /\ SlackQuiet /\ PriorQuiet /\ LearnQuiet /\ TtlQuiet
    /\ TripQuiet /\ BlockQuiet /\ CacheInit
    /\ RaceQuiet
    /\ SeqQuiet
    /\ WkQuiet
    /\ FmQuiet

CacheUnchanged ==
    UNCHANGED <<setVars, govVars, storeVars, markVars, orchVars, clsVars, muteVars,
                routerVars, slackVars, priorVars, learnVars, ttlVars, tripVars, blockVars,
                raceVars,
                seqVars,
                wkVars,
                fmVars>>

NextCache ==
    \/ \E c \in CacheCallers : CacheCall(c) /\ CacheUnchanged
    \/ \E c \in CacheCallers : CacheAcquire(c) /\ CacheUnchanged
    \/ \E c \in CacheCallers, outcome \in LoadOutcomes("settings") :
           CacheLoad(c, outcome) /\ CacheUnchanged
    \/ \E c \in CacheCallers : CacheAssign(c) /\ CacheUnchanged
    \/ \E c \in CacheCallers : CacheStamp(c) /\ CacheUnchanged
    \/ \E c \in CacheCallers : CacheRead(c) /\ CacheUnchanged
    \/ ClockTick /\ CacheUnchanged
    \/ SourceChanges /\ CacheUnchanged

SpecCache == InitCache /\ [][NextCache]_vars

InitRace ==
    /\ SetInit /\ settings_db = TRUE /\ GovInit /\ GovQuiet /\ ClsInit /\ ClsQuiet
    /\ StoreInit /\ OrchInit /\ OrchQuiet
    /\ MuteQuiet /\ RouterQuiet /\ SlackQuiet /\ PriorQuiet /\ LearnQuiet /\ TtlQuiet
    /\ TripQuiet /\ BlockQuiet /\ CacheQuiet /\ RaceInit
    /\ SeqQuiet
    /\ WkQuiet
    /\ FmQuiet

RaceUnchanged ==
    UNCHANGED <<setVars, govVars, orchVars, clsVars, muteVars, routerVars, slackVars,
                priorVars, learnVars, ttlVars, tripVars, blockVars, cacheVars,
                seqVars,
                wkVars,
                fmVars>>

NextRace ==
    \/ \E p \in Processors, okp \in BOOLEAN, okd \in BOOLEAN :
           RaceCheck(p, okp, okd) /\ RaceUnchanged
    \/ \E p \in Processors, send_ok \in BOOLEAN : RaceDeliver(p, send_ok) /\ RaceUnchanged
    \/ \E p \in Processors, reached \in Reaches : RaceMark(p, reached) /\ RaceUnchanged
    \/ Tick /\ UNCHANGED <<setVars, govVars, orchVars, clsVars>>

SpecRace == InitRace /\ [][NextRace]_vars

InitRetry ==
    /\ SetInit /\ settings_db = TRUE /\ GovInit /\ GovQuiet /\ ClsInit /\ ClsQuiet
    /\ BlockStoreInit /\ OrchInit /\ OrchQuiet
    /\ RouterQuiet /\ SlackQuiet /\ PriorQuiet /\ LearnQuiet /\ TtlQuiet
    /\ TripQuiet /\ CacheQuiet /\ RaceQuiet /\ RetryInit
    /\ SeqQuiet
    /\ WkQuiet
    /\ FmQuiet

RetryUnchanged ==
    UNCHANGED <<setVars, govVars, orchVars, clsVars, routerVars, slackVars, priorVars,
                learnVars, ttlVars, tripVars, cacheVars, raceVars,
                seqVars,
                wkVars,
                fmVars>>

\* a batch fetches the mail
RetryFetch ==
    /\ ProcessLaterBegin(RetryMail)
    /\ UNCHANGED <<storeVars, markVars>>
    /\ RetryUnchanged

\* process_single_event runs to its end
RetryProcess ==
    \E event_read \in BOOLEAN, j \in LaterJudgments, read_ok \in {{}, BlockUsers},
       save_ok \in BOOLEAN, send_ok \in BOOLEAN :
        /\ ProcessLater(event_read, j[1], j[2], read_ok, save_ok, send_ok)
        /\ RetryUnchanged

\* process_single_event runs to its end, the stored event is read and the
\* delivery client reports success
RetryProcessSent ==
    \E j \in LaterJudgments, read_ok \in {{}, BlockUsers}, save_ok \in BOOLEAN :
        /\ ProcessLater(TRUE, j[1], j[2], read_ok, save_ok, TRUE)
        /\ RetryUnchanged

NextRetry == RetryFetch \/ RetryProcess

SpecRetry == InitRetry /\ [][NextRetry]_vars

\* batches keep coming, every call runs to its end, and the send succeeds
\* again and again
SpecRetryFair ==
    SpecRetry /\ WF_vars(RetryFetch) /\ WF_vars(RetryProcess) /\ SF_vars(RetryProcessSent)

InitSeq ==
    /\ SetInit /\ settings_db = TRUE /\ GovInit /\ GovQuiet /\ ClsInit /\ ClsQuiet
    /\ StoreInit /\ backend \in {"file", "firestore"} /\ OrchInit /\ OrchQuiet
    /\ user_feedback \in {{}, RetryPrefs} /\ mute_call = NoMuteCall
    /\ RouterQuiet /\ SlackQuiet /\ PriorQuiet /\ LearnQuiet /\ TtlQuiet
    /\ TripQuiet /\ BlockQuiet /\ CacheQuiet /\ RaceQuiet /\ SeqInit
    /\ WkQuiet
    /\ FmQuiet

SeqUnchanged ==
    /\ UNCHANGED <<setVars, control_doc, gov_called, gov_reads, gov_result, markVars, clsVars>>
    /\ UNCHANGED <<DRY_RUN, batch_pc, batch, batch_gov, batch_log, batch_did, workers,
                   results, runs, sent_ok, dry_marked>>
    /\ UNCHANGED <<muteVars, routerVars, slackVars, priorVars, learnVars, ttlVars, tripVars,
                   blockVars, cacheVars, raceVars, wkVars, fmVars>>

NextSeq ==
    \/ \E event_read \in BOOLEAN, j \in SeqJudgments, read_ok \in SUBSET UserTargets :
         \E save_ok \in BOOLEAN, inc_ok \in BOOLEAN :
           /\ SeqSelect(event_read, j[1], j[2], read_ok, save_ok, inc_ok)
           /\ UNCHANGED storeVars /\ SeqUnchanged
    \/ \E failing \in SUBSET seq_call.new_targets :
           SeqSend(failing) /\ UNCHANGED storeVars /\ SeqUnchanged
    \/ \E reached \in ReachMaps(seq_call.new_targets) :
           SeqMark(reached) /\ UNCHANGED <<backend, now>> /\ SeqUnchanged
    \/ SeqFetch /\ UNCHANGED storeVars /\ SeqUnchanged

SpecSeq == InitSeq /\ [][NextSeq]_vars

InitWorkers ==
    /\ SetInit /\ settings_db = TRUE /\ GovInit /\ GovQuiet /\ ClsInit /\ ClsQuiet
    /\ StoreInit /\ StoreQuiet /\ OrchInit /\ OrchQuiet
    /\ MuteQuiet /\ RouterQuiet /\ SlackQuiet /\ PriorQuiet /\ LearnQuiet /\ TtlQuiet
    /\ TripQuiet /\ BlockQuiet /\ CacheQuiet /\ RaceQuiet /\ SeqQuiet /\ WkInit
    /\ FmQuiet

WorkersUnchanged ==
    /\ UNCHANGED <<setVars, govVars, storeVars, markVars>>
    /\ UNCHANGED <<spam_file, client_ok, cls_event, cls_config, cls_llm, cls_result,
                   cls_analyze_calls, cls_api_calls, cls_reuse>>
    /\ UNCHANGED <<DRY_RUN, batch_pc, batch, batch_gov, batch_log, batch_did, workers,
                   results, runs, sent_ok, dry_marked>>
    /\ UNCHANGED <<muteVars, routerVars, slackVars, priorVars, learnVars, ttlVars, tripVars,
                   blockVars, cacheVars, raceVars, seqVars, fmVars>>

NextWorkers ==
    \/ \E w \in WorkerThreads : WkLookup(w) /\ WorkersUnchanged
    \/ \E w \in WorkerThreads : WkAnalyzeBegin(w) /\ WorkersUnchanged
    \/ \E w \in WorkerThreads, ok \in BOOLEAN : WkAnalyzeEnd(w, ok) /\ WorkersUnchanged
    \/ \E w \in WorkerThreads : WkReadUsage(w) /\ WorkersUnchanged
    \/ \E w \in WorkerThreads : WkSave(w) /\ WorkersUnchanged
    \/ WkNextBatch /\ WorkersUnchanged

SpecWorkers == InitWorkers /\ [][NextWorkers]_vars

InitFileMarks ==
    /\ SetInit /\ settings_db = TRUE /\ GovInit /\ GovQuiet /\ ClsInit /\ ClsQuiet
    /\ StoreInit /\ StoreQuiet /\ OrchInit /\ OrchQuiet
    /\ MuteQuiet /\ RouterQuiet /\ SlackQuiet /\ PriorQuiet /\ LearnQuiet /\ TtlQuiet
    /\ TripQuiet /\ BlockQuiet /\ CacheQuiet /\ RaceQuiet /\ SeqQuiet /\ WkQuiet /\ FmInit

FileMarksUnchanged ==
    UNCHANGED <<setVars, govVars, storeVars, markVars, orchVars, clsVars, muteVars,
                routerVars, slackVars, priorVars, learnVars, ttlVars, tripVars, blockVars,
                cacheVars, raceVars, seqVars, wkVars>>

NextFileMarks ==
    \/ \E w \in MarkThreads : FmTestMessage(w) /\ FileMarksUnchanged
    \/ \E w \in MarkThreads : FmNewList(w) /\ FileMarksUnchanged
    \/ \E w \in MarkThreads : FmTestTarget(w) /\ FileMarksUnchanged
    \/ \E w \in MarkThreads : FmAppend(w) /\ FileMarksUnchanged
    \/ \E w \in MarkThreads : FmContent(w) /\ FileMarksUnchanged
    \/ \E w \in MarkThreads, ok \in BOOLEAN : FmSave(w, ok) /\ FileMarksUnchanged

SpecFileMarks == InitFileMarks /\ [][NextFileMarks]_vars

InitRouter ==
    /\ SetInit /\ settings_db = TRUE /\ GovInit /\ GovQuiet /\ ClsInit /\ ClsQuiet
    /\ StoreInit /\ StoreQuiet /\ OrchInit /\ OrchQuiet
    /\ MuteQuiet /\ RouterInit /\ SlackQuiet /\ PriorQuiet
    /\ LearnQuiet
    /\ TtlQuiet
    /\ TripQuiet
    /\ BlockQuiet
    /\ CacheQuiet
    /\ RaceQuiet
    /\ SeqQuiet
    /\ WkQuiet
    /\ FmQuiet

RouterUnchanged ==
    UNCHANGED <<setVars, govVars, storeVars, markVars, orchVars, clsVars, muteVars,
                slackVars, priorVars,
                learnVars,
                ttlVars,
                tripVars,
                blockVars,
                cacheVars,
                raceVars,
                seqVars,
                wkVars,
                fmVars>>

NextRouter ==
    \/ \E e \in RouteEvents, stale \in BOOLEAN, failed \in BOOLEAN :
         \E load_ok \in IF stale THEN BOOLEAN ELSE {TRUE} :
           \E docs \in IF stale /\ load_ok THEN RoutingDocSets ELSE {{}} :
             \E looked_up \in IF failed THEN SUBSET InvolvedEmails(e) \ {InvolvedEmails(e)}
                                        ELSE {InvolvedEmails(e)} :
               GetTargets(e, stale, load_ok, docs, looked_up, failed) /\ RouterUnchanged
    \/ \E docs \in RoutingDocSets : GetAllMonitoredEmails(TRUE, docs) /\ RouterUnchanged
    \/ GetTargetsReturn /\ RouterUnchanged

SpecRouter == InitRouter /\ [][NextRouter]_vars

\* what fetch_unread_events may return
Fetches == {x \in SUBSET OrchEvents : Cardinality(x) <= MaxBatchEvents}

\* the target_ids of the trigger requests the model follows
TriggerTargets == {{"U1"}, {"U1", "C1"}}

OrchBackends == {"file", "firestore"}

Init ==
    /\ SetInit /\ settings_db = TRUE
    /\ GovInit /\ control_doc = NoDoc /\ usage_doc.calls >= NearCallLimit
    /\ ClsInit /\ ClsQuiet
    /\ StoreInit /\ backend \in OrchBackends
    /\ OrchInit
    /\ AuxQuiet

OrchUnchanged == UNCHANGED <<setVars, storeVars, markVars, auxVars, orchVars, clsVars>>

Next ==
    \/ \E ok1 \in BOOLEAN, ok2 \in BOOLEAN, ok3 \in BOOLEAN, fetch_ok \in BOOLEAN :
         \E evs \in IF fetch_ok THEN Fetches ELSE {{}} :
           UsageWithinBounds /\ RunBatch(ok1, ok2, ok3, fetch_ok, evs)
    \/ \E id \in DOMAIN workers : ProcessCached(id)
    \/ \E id \in DOMAIN workers, out \in OrchOutcomes : ProcessNew(id, out)
    \/ \E id \in DOMAIN workers, silenced \in SUBSET UserTargets, save_ok \in BOOLEAN :
         \* one judgment call costs less than a whole dollar
         \E inc_ok \in BOOLEAN : ProcessFilter(id, silenced, save_ok, inc_ok, 0)
    \/ \E id \in DOMAIN workers :
         \E okp \in ReadSets(workers[id].targets), okd \in ReadSets(workers[id].targets) :
           ProcessDedup(id, okp, okd)
    \/ \E id \in DOMAIN workers :
         \E failing \in SUBSET workers[id].targets :
           \E reached \in IF failing = {} THEN ReachMaps(workers[id].targets)
                                          ELSE {[t \in workers[id].targets |-> 0]} :
             ProcessDeliver(id, failing, reached)
    \/ \E id \in DOMAIN workers : ProcessRaise(id)
    \/ \E ok \in BOOLEAN : BatchFinish(ok)
    \/ \E target_ids \in TriggerTargets :
         \E failing \in SUBSET target_ids :
           \E upd_ok \in IF failing = {} THEN BOOLEAN ELSE {TRUE} :
             \E reached \in IF failing = {} /\ upd_ok THEN ReachMaps(target_ids)
                                                       ELSE {[t \in target_ids |-> 0]} :
               TriggerNotification("m1", target_ids, failing, upd_ok, reached)
    \/ \E en \in BOOLEAN :
           batch_pc = "idle" /\ SetSystemEnabled(en, "")
           /\ UNCHANGED <<gov_called, gov_reads, gov_result>> /\ OrchUnchanged

Spec == Init /\ [][Next]_vars

(***************************************************************************)
(* Claims about the classifier, checked under SpecClassify                 *)
(***************************************************************************)

ClsReturned == cls_event # NoEvent

\* the sender contains a blacklisted domain / the subject a spam keyword /
\* the sender a whitelisted domain, in the configuration the call used
BlacklistHit ==
    \E i \in 1..Len(cls_config.blacklist_domains) :
        IsSubstr(cls_config.blacklist_domains[i], Lower(cls_event.sender))
SpamHit ==
    \E i \in 1..Len(cls_config.spam_keywords) :
        IsSubstr(cls_config.spam_keywords[i], Lower(cls_event.subject))
WhitelistHit ==
    \E i \in 1..Len(cls_config.whitelist_domains) :
        IsSubstr(cls_config.whitelist_domains[i], Lower(cls_event.sender))
NoRuleHit == ~BlacklistHit /\ ~SpamHit /\ ~WhitelistHit

\* the judgment-service call failed: no client, a transport error, output
\* that is no JSON object with a numeric score and a reason, or a score
\* outside [0,1]
JudgmentFailed ==
    \/ ~client_ok
    \/ cls_llm.kind \in {"transport_error", "bad_json"}
    \/ cls_llm.score_kind = "bad"
    \/ cls_llm.reason = "null"
    \/ (cls_llm.score_kind = "num" /\ (cls_llm.score < 0 \/ cls_llm.score > 100))

\* the threshold in force: the dynamic setting, 0.5 when absent
ActiveThreshold ==
    IF "score_threshold_notify" \in DOMAIN settings
    THEN settings["score_threshold_notify"] ELSE 50

\* C7: for every event that matches no rule and every value of the active
\* threshold, a failed judgment-service call makes classify return SILENT
\* with score 0 and a reason naming the failure (classify returning a
\* result at all is its not raising: every failure of the service is
\* turned into a result inside analyze_email).
C7_FailureIsSilent ==
    (ClsReturned /\ NoRuleHit /\ JudgmentFailed) =>
        /\ cls_result.category = SILENT
        /\ cls_result.score = 0
        /\ cls_result.reason.kind \in {"llm_unavailable", "llm_error"}

\* C8: on the judgment path (no rule fired) the returned category is NOTIFY
\* exactly when the returned score is at least the active threshold,
\* whatever category the judgment service gave, and the score is the one
\* analyze_email produced.
C8_CategoryFromThreshold ==
    (ClsReturned /\ NoRuleHit) =>
        /\ cls_result.category \in {NOTIFY, SILENT}
        /\ (cls_result.category = NOTIFY) <=> (cls_result.score >= ActiveThreshold)
        /\ cls_result.score = AnalyzeEmail(client_ok, cls_llm).result.score
        /\ cls_result.source = LLM

\* C8 witness: the service said "silent" with score 0.62, no dynamic
\* threshold is set (0.5 applies), and classify returned NOTIFY with 0.62.
C8_Witness ==
    /\ ClsReturned /\ NoRuleHit /\ client_ok
    /\ "score_threshold_notify" \notin DOMAIN settings
    /\ cls_llm.kind = "parsed" /\ cls_llm.score_kind = "num"
    /\ cls_llm.score = 62 /\ cls_llm.category = "silent" /\ cls_llm.reason = "given"
    /\ cls_result.category = NOTIFY /\ cls_result.score = 62

\* C9: an event whose sender matches a blacklist domain or whose subject
\* contains a spam keyword is classified SILENT, score 0, source RULE, even
\* when its sender also matches a whitelist domain.
C9_BlacklistSpamFirst ==
    (ClsReturned /\ (BlacklistHit \/ SpamHit)) =>
        /\ cls_result.category = SILENT
        /\ cls_result.score = 0
        /\ cls_result.source = RULE
        /\ cls_result.reason.kind = IF BlacklistHit THEN "blacklist" ELSE "spam"

\* C9 witness: a spam keyword in the subject of a mail from a whitelisted,
\* not blacklisted sender, classified SILENT by the rule.
C9_Witness ==
    /\ ClsReturned /\ SpamHit /\ WhitelistHit /\ ~BlacklistHit
    /\ cls_result.category = SILENT /\ cls_result.source = RULE

\* C10: when a blacklist or spam-keyword rule fires classify never invokes
\* the judgment service, and on every path it invokes it at most once.
C10_NoJudgmentOnSilentRule ==
    ClsReturned =>
        /\ (BlacklistHit \/ SpamHit) => (cls_analyze_calls = 0 /\ cls_api_calls = 0)
        /\ cls_analyze_calls <= 1
        /\ cls_api_calls <= cls_analyze_calls

\* C10 witness: a spam keyword, sender not blacklisted, a working client:
\* SILENT by rule, the reason names the keyword, no call was made.
C10_Witness ==
    /\ ClsReturned /\ SpamHit /\ ~BlacklistHit /\ client_ok
    /\ cls_result.category = SILENT /\ cls_result.source = RULE
    /\ cls_result.reason = [kind |-> "spam", text |-> <<"a", "d">>]
    /\ cls_analyze_calls = 0 /\ cls_api_calls = 0

\* only the whitelist rule fires
WhitelistOnly == WhitelistHit /\ ~BlacklistHit /\ ~SpamHit

\* C11: when only the whitelist rule fires, classify returns NOTIFY with
\* score 1.0 and source RULE whatever the judgment service returns; of the
\* judgment call only the summary enters the result (the reason is the
\* rule's, no override map is carried).
C11_WhitelistKeepsRule ==
    (ClsReturned /\ WhitelistOnly) =>
        /\ cls_result.category = NOTIFY
        /\ cls_result.score = 100
        /\ cls_result.source = RULE
        /\ cls_result.reason = [kind |-> "whitelist", text |-> Lower(cls_event.sender)]
        /\ cls_result.user_overrides = EmptyDict
        /\ cls_result.summary = AnalyzeEmail(client_ok, cls_llm).result.summary
        /\ cls_analyze_calls = 1

\* C11 witness: a whitelisted sender, and a judgment service that answered
\* "silent" with score 0 and a summary: NOTIFY by rule with that summary
C11_Witness ==
    /\ ClsReturned /\ WhitelistOnly /\ client_ok
    /\ cls_llm.kind = "parsed" /\ cls_llm.score_kind = "num" /\ cls_llm.score = 0
    /\ cls_llm.category = "silent" /\ cls_llm.summary = "sum"
    /\ cls_result.category = NOTIFY /\ cls_result.score = 100
    /\ cls_result.summary = "sum"

\* an AnalysisResult the model allows: a category of the enumeration and
\* a score in [0,1]
ResultValid(result) == result.category \in {NOTIFY, SILENT} /\ ScoreValid(result.score)

\* the judgment service was asked and gave a score outside [0,1]
ScoreOutOfRange ==
    /\ cls_analyze_calls = 1 /\ client_ok
    /\ cls_llm.kind = "parsed" /\ cls_llm.score_kind = "num"
    /\ ~ScoreValid(cls_llm.score)

\* C12: every AnalysisResult produced for an event, by classify (rule
\* path, judgment path, judgment failure) or by the reuse of a stored
\* snapshot, has its category in {NOTIFY, SILENT} and its score in [0,1]; a
\* judgment-service score outside [0,1] is replaced by the failure result's
\* score 0 (or by the rule's score) and never returned.
C12_ResultWellFormed ==
    /\ ClsReturned => ResultValid(cls_result)
    /\ (ClsReturned /\ ScoreOutOfRange) =>
           /\ cls_result.score # cls_llm.score
           /\ cls_result.score = IF WhitelistOnly THEN 100 ELSE 0
    /\ (cls_reuse # NoReuse /\ ~cls_reuse.raised) => ResultValid(cls_reuse.result)
    /\ (cls_reuse # NoReuse /\ cls_reuse.raised) => cls_reuse.result = NoResult

\* C12 witness: the judgment service answered score 1.01 for a mail no
\* rule matches and classify returned the failure result with score 0
C12_Witness ==
    /\ ClsReturned /\ NoRuleHit /\ ScoreOutOfRange
    /\ cls_llm.score = 101
    /\ cls_result.score = 0
    /\ cls_result.reason.kind = "llm_error"

(***************************************************************************)
(* Claims about the governor, checked under SpecGov                        *)
(***************************************************************************)

\* what the three reads of the recorded is_system_enabled call returned
GovStatus1 == GetSystemStatus(settings_db, control_doc, gov_reads[1])
GovStatus2 == GetSystemStatus(settings_db, control_doc, gov_reads[2])
GovUsage == GetDailyUsage(settings_db, usage_doc, gov_reads[3])

GovPaused == GovStatus1["enabled"] = FALSE
GovCallsOver == GovUsage.calls >= GovStatus2["daily_limit_calls"]
GovCostOver == GovUsage.cost_usd >= GovStatus2["daily_limit_cost_usd"]

\* the control document says paused and the call's first read reached it
StoredPause ==
    /\ settings_db /\ gov_reads[1] /\ control_doc.exists
    /\ DictGet(control_doc.data, "enabled", TRUE) = FALSE

\* C6: is_system_enabled checks the pause flag, then the call ceiling, then
\* the cost ceiling.  With the pause flag set it returns (false, the stored
\* pause reason) whatever the counters are; otherwise with calls >= the call
\* ceiling it returns (false, the call-limit reason) whatever the cost is;
\* otherwise with cost >= the cost ceiling it returns (false, the cost-limit
\* reason); otherwise it returns (true, ...).
C6_GovernorOrder ==
    gov_called =>
        /\ GovPaused =>
              /\ gov_result.enabled = FALSE
              /\ gov_result.reason.kind = "pause"
              /\ gov_result.reason.text = GovStatus1["pause_reason"]
        /\ StoredPause =>
              /\ gov_result.enabled = FALSE
              /\ gov_result.reason.text = control_doc.data["pause_reason"]
        /\ (~GovPaused /\ GovCallsOver) =>
              gov_result = [enabled |-> FALSE,
                            reason |-> GovReason("calls", "", GovUsage.calls,
                                                 GovStatus2["daily_limit_calls"])]
        /\ (~GovPaused /\ ~GovCallsOver /\ GovCostOver) =>
              gov_result = [enabled |-> FALSE,
                            reason |-> GovReason("cost", "", GovUsage.cost_usd,
                                                 GovStatus2["daily_limit_cost_usd"])]
        /\ (~GovPaused /\ ~GovCallsOver /\ ~GovCostOver) =>
              /\ gov_result.enabled = TRUE
              /\ gov_result.reason.kind = "ok"

\* C6 witness: the system is not paused, both counters have reached their
\* ceilings, and the call came back with the call-limit reason
C6_Witness ==
    /\ gov_called /\ gov_reads = <<TRUE, TRUE, TRUE>>
    /\ ~GovPaused /\ GovCallsOver /\ GovCostOver
    /\ gov_result.enabled = FALSE
    /\ gov_result.reason.kind = "calls"

\* a paused system whose counters are both over their ceilings reports the
\* stored pause reason
C6_PausedOverLimit ==
    /\ gov_called /\ StoredPause /\ GovCallsOver /\ GovCostOver
    /\ gov_result.reason = GovReason("pause", "maintenance", 0, 0)

(***************************************************************************)
(* Claims about the state store, checked under SpecStore                   *)
(***************************************************************************)

\* the store's answers now, for reads that reach the store
ProcessedAnswer(message_id, target_id) ==
    IsProcessed(backend, TheStore, message_id, target_id, TRUE)

DuplicateAnswer(key, window_minutes) ==
    IsDuplicateByContent(backend, TheStore, key[1], key[2], key[3], window_minutes, now, TRUE)

ProcessedAnswers == [id \in StoreMessages \X Targets |-> ProcessedAnswer(id[1], id[2])]

DuplicateAnswers == [q \in StoreKeys \X Windows |-> DuplicateAnswer(q[1], q[2])]

\* this step is the call mark_processed(a...)
MarkStep(a) ==
    /\ mark_calls' = (a :> now) @@ mark_calls
    /\ \E reached \in Reaches :
        StoreMark(a.message_id, a.target_id, a.sender, a.subject, reached)

\* this step is the call mark_processed(a...), and its first write reaches
\* the store
MarkStepWritten(a) ==
    /\ mark_calls' = (a :> now) @@ mark_calls
    /\ \E reached \in Reaches \ {0} :
        StoreMark(a.message_id, a.target_id, a.sender, a.subject, reached)

\* C3 as stated: on every backend, after mark_processed(m, t, sender,
\* subject) is_processed(m, t) is true, and a second call with the same
\* arguments leaves every answer of is_processed and is_duplicate_by_content
\* as it was after the first call.
C3_MarkIdempotent ==
    [][\A a \in MarkCalls :
          MarkStep(a) =>
              /\ ProcessedAnswer(a.message_id, a.target_id)'
              /\ (a \in DOMAIN mark_calls =>
                      /\ ProcessedAnswers' = ProcessedAnswers
                      /\ DuplicateAnswers' = DuplicateAnswers)]_vars

\* C3 amended: after a mark_processed(m, t, sender, subject) whose write
\* reaches the store is_processed(m, t) is true.  A call for a pair (m, t)
\* the store already holds changes no answer of is_processed; on the file
\* store it changes nothing at all; on the other two stores it may turn
\* is_duplicate_by_content from false to true for the call's own content key
\* (the throttle record is written again with the new time) and changes it
\* for no other key.
C3_RemarkRefreshesOnly ==
    [][\A a \in MarkCalls :
          MarkStepWritten(a) =>
              /\ ProcessedAnswer(a.message_id, a.target_id)'
              /\ (MakeDocId(a.message_id, a.target_id) \in processed =>
                      /\ ProcessedAnswers' = ProcessedAnswers
                      /\ \A k \in StoreKeys, w \in Windows :
                            IF SameKey(backend, k, <<a.sender, a.subject, a.target_id>>)
                            THEN DuplicateAnswer(k, w) => DuplicateAnswer(k, w)'
                            ELSE DuplicateAnswer(k, w)' = DuplicateAnswer(k, w)
                      /\ (backend = "file" => TheStore' = TheStore))]_vars

\* C3 witness: the file store has marked ("m2", "U1") with the subject
\* "hi" and was then called again for the same pair with the subject "h i",
\* which left no record
C3_Witness ==
    /\ backend = "file"
    /\ MarkArgs("m2", "U1", <<"u", "@", "n">>, <<"h", "i">>) \in DOMAIN mark_calls
    /\ MarkArgs("m2", "U1", <<"u", "@", "n">>, <<"h", " ", "i">>) \in DOMAIN mark_calls
    /\ <<"m2", "U1">> \in processed
    /\ <<"u", "@", "n">> \o <<":">> \o <<"h", "i">> = recent_content["U1"][1].content_key
    /\ Len(recent_content["U1"]) = 1

\* C4 as stated: after mark_processed(m, t, sender, subject) at time T,
\* is_duplicate_by_content(sender, subject, t, window) is true at every time
\* before T + window and false at every time after T + window.
C4_ThrottleWindow ==
    \A a \in DOMAIN mark_calls, w \in Windows :
        LET T == mark_calls[a]
            dup == DuplicateAnswer(<<a.sender, a.subject, a.target_id>>, w)
        IN  /\ (now < T + w => dup)
            /\ (now > T + w => ~dup)

\* C4 amended: is_duplicate_by_content(sender, subject, t, window) is true
\* exactly when a throttle record was last written for its key at a time T
\* with now < T + window.  A mark_processed call writes the record when
\* sender and subject are both non-empty, the write reaches the store and,
\* on the file store, (m, t) was not marked before; the key is (sender,
\* subject, t), with whitespace removed from the subject on Firestore.  (The
\* file store keeps the 100 latest records of a target.)
C4_ThrottleWindowOfRecord ==
    \A k \in StoreKeys, w \in Windows :
        DuplicateAnswer(k, w) <=> (k \in DOMAIN rec_at /\ now < rec_at[k] + w)

\* C4 witness: a record written for "hi" to U1 at time 0 has left the
\* ten-minute window although another mark for U1 was made in between
C4_Witness ==
    LET k == << <<"u", "@", "n">>, <<"h", "i">>, "U1" >>
    IN  /\ k \in DOMAIN rec_at
        /\ rec_at[k] = 0
        /\ now = WINDOW_MINUTES
        /\ ~DuplicateAnswer(k, WINDOW_MINUTES)
        /\ \E a \in DOMAIN mark_calls : a.target_id = "U1" /\ mark_calls[a] > 0

\* C23: on every backend the throttle key uses the subject with all
\* whitespace removed: is_duplicate_by_content gives one answer for two
\* subjects that are equal once whitespace is removed (same sender, same
\* target, same window), so the backends agree on every sequence of calls.
C23_ThrottleKeyIgnoresWhitespace ==
    \A k1 \in StoreKeys, k2 \in StoreKeys, w \in Windows :
        /\ k1[1] = k2[1]
        /\ k1[3] = k2[3]
        /\ NormalizeSubject(k1[2]) = NormalizeSubject(k2[2])
        => DuplicateAnswer(k1, w) = DuplicateAnswer(k2, w)

(***************************************************************************)
(* Claims about the orchestrator, checked under Spec                       *)
(***************************************************************************)

\* the process_single_event calls that stand between the dedup filter and
\* the delivery
Delivering == { id \in DOMAIN workers : workers[id].pc = "deliver" }

\* C1: send_notification is never invoked with a target for which
\* is_processed(message, target) answered True when the dedup filter ran:
\* the targets a process_single_event call is about to deliver to contain
\* none of the targets its filter saw as processed.
C1_ProcessedFilteredOut ==
    \A id \in Delivering : workers[id].targets \cap workers[id].saw = {}

\* C1 witness: the event of mailbox "b" is about to be delivered to the
\* channel only, its filter having found the user U1 already marked for the
\* message
C1_Witness ==
    /\ "e2" \in Delivering
    /\ workers["e2"].saw = {"U1"}
    /\ workers["e2"].targets = {"C1"}
    /\ MakeDocId("m1", "U1") \in processed

\* (message, target) has a dedup marker or a throttle record
Marked(event, t) ==
    \/ MakeDocId(event.message_id, t) \in processed
    \/ MakeThrottlingId(event.sender, event.subject, t) \in DOMAIN throttling
    \/ \E i \in 1..Len(recent_content[t]) :
          recent_content[t][i].content_key = ContentKey(event.sender, event.subject)

\* C2 as stated: in every reachable state a dedup marker or a throttle
\* record for (message, target) implies that the delivery client delivered
\* the message to the target earlier, in every run mode.
C2_MarkedAfterSend ==
    \A t \in Targets : Marked(E1, t) => <<E1.message_id, t>> \in sent_ok

\* C2 amended: a dedup marker or a throttle record for (message, target) is
\* written only after the delivery client reported a successful send covering
\* the target, by the manual trigger in every run mode and by batch
\* processing when DRY_RUN is off; when DRY_RUN is on, batch processing writes
\* them for every target that passed the dedup filter without calling the
\* delivery client.
C2_MarkedAfterSendUnlessDryRun ==
    /\ \A t \in Targets :
          Marked(E1, t) => \/ <<E1.message_id, t>> \in sent_ok
                           \/ <<E1.message_id, t>> \in dry_marked
    /\ (~DRY_RUN => dry_marked = {})

\* C2 witness: with DRY_RUN off, the batch has marked the message for the
\* channel after a send that reached the user and the channel, and the
\* manual trigger has run too
C2_Witness ==
    /\ ~DRY_RUN
    /\ Marked(E1, "C1")
    /\ <<"m1", "C1">> \in sent_ok
    /\ batch.sent > 0
    /\ runs.triggers > 0

\* a run_batch request arrives and the governor answers disabled
DisabledBatchStarts == runs'.batches > runs.batches /\ ~batch_gov'.enabled

\* C5: whenever is_system_enabled answers disabled at the start of
\* run_batch, the batch returns "skipped" with processed = sent = ignored =
\* 0 and does no mail fetch, no judgment-service call, no delivery and no
\* usage increment: the request starts no process_single_event and changes
\* neither the usage counters, the snapshots, the judgment service's
\* last_usage, the deliveries nor the state store, and no batch whose
\* governor answered disabled is ever running.
C5_DisabledBatchSkipped ==
    /\ [][DisabledBatchStarts =>
             /\ batch' = BatchResponse("skipped", 0, 0, 0)
             /\ batch_did' = {}
             /\ UNCHANGED <<batch_pc, workers, usage_doc, snapshots, last_usage, sent_ok,
                            dry_marked, processed, recent_content, throttling>>]_vars
    /\ [](~batch_gov.enabled =>
             /\ batch = BatchResponse("skipped", 0, 0, 0)
             /\ batch_pc = "idle"
             /\ workers = NoWorkers
             /\ batch_did = {})

\* C5 witness: a batch was requested with the daily call counter at its
\* ceiling and was skipped
C5_Witness ==
    /\ runs.batches > 0
    /\ ~batch_gov.enabled
    /\ batch_gov.reason.kind = "calls"
    /\ batch.status = "skipped"
    /\ usage_doc.calls >= DEFAULT_LIMIT_CALLS

(***************************************************************************)
(* Claims about the mute preferences and the per-target filter, checked    *)
(* under SpecMute                                                          *)
(***************************************************************************)

\* the filter has run and its answer is on record
Filtered == mute_call.pc = "filtered"

\* the document d matches the mail: the same sender up to letter case and
\* surrounding whitespace, and a null pattern, the pattern of the subject, or
\* a pattern sharing at least 3 whitespace-delimited tokens with it once the
\* brackets are removed
EntryMatches(d, sender, pattern) ==
    /\ Strip(Lower(d.sender)) = Strip(Lower(sender))
    /\ \/ d.subject_pattern = NullPattern
       \/ d.subject_pattern = pattern
       \/ \E k \in SUBSET SplitSet(SelectSeq(d.subject_pattern, LAMBDA c : c \notin {"[", "]"})) :
             /\ Cardinality(k) = 3
             /\ k \subseteq SplitSet(SelectSeq(pattern, LAMBDA c : c \notin {"[", "]"}))

\* the mute store holds a document of user t that matches the filtered mail
StoreMutes(t) ==
    \E d \in user_feedback :
        d.user_id = t /\ EntryMatches(d, mute_call.event.sender, mute_call.pattern)

\* C13 as stated: a user target for which the mute store holds an entry
\* matching (user, sender, pattern-of(subject)) is never in the final target
\* set, whatever the category and the override map say.
C13_MutedNeverTargeted ==
    Filtered =>
        \A t \in mute_call.targets \cap UserTargets :
            StoreMutes(t) => t \notin mute_call.final_targets

\* C13 amended: a user target whose preference query reached the mute store,
\* and for which the store holds an entry matching (user, sender,
\* pattern-of(subject)), is never in the final target set, even when the
\* category is NOTIFY and the override map names the target "notify"; a
\* target whose query failed is filtered as if it had no entry.
C13_MutedNeverTargetedWhenRead ==
    Filtered =>
        \A t \in mute_call.targets \cap UserTargets :
            /\ (t \in mute_call.read_ok /\ StoreMutes(t)) => t \notin mute_call.final_targets
            /\ t \notin mute_call.read_ok => t \notin mute_call.silence

\* C13 witness: U1 muted this sender and pattern, the query reached the
\* store, the category is NOTIFY and the override map says "notify" for U1,
\* and U1 is not a final target while the channel is
C13_Witness ==
    /\ Filtered
    /\ "U1" \in mute_call.read_ok
    /\ StoreMutes("U1")
    /\ mute_call.category = NOTIFY
    /\ "U1" \in DOMAIN mute_call.user_overrides
    /\ mute_call.user_overrides["U1"] = "notify"
    /\ mute_call.final_targets = {"C1"}

\* C14: for a target the mute rule did not silence the override map
\* decides first: a target named "silent" is excluded even when the category
\* is NOTIFY, a target named "notify" is included even when the category is
\* SILENT, and a target the map does not name is included exactly when the
\* category is NOTIFY.
C14_OverrideThenCategory ==
    Filtered =>
        \A t \in mute_call.targets \ mute_call.silence :
            LET ov == mute_call.user_overrides
            IN  /\ (t \in DOMAIN ov /\ ov[t] = "silent") => t \notin mute_call.final_targets
                /\ (t \in DOMAIN ov /\ ov[t] = "notify") => t \in mute_call.final_targets
                /\ t \notin DOMAIN ov =>
                       (t \in mute_call.final_targets <=> mute_call.category = NOTIFY)

\* C14 witness: the category is SILENT, the map names the channel "notify"
\* and does not name U1, whom no entry silences: the channel alone is kept
C14_Witness ==
    /\ Filtered
    /\ mute_call.category = SILENT
    /\ mute_call.silence = {}
    /\ DOMAIN mute_call.user_overrides = {"C1"}
    /\ mute_call.user_overrides["C1"] = "notify"
    /\ mute_call.final_targets = {"C1"}

\* C15 as stated: should_silence_for_user(user, sender, subject) is true if
\* and only if the user has a stored entry whose sender equals the mail's
\* sender (letter case and surrounding whitespace aside) and whose pattern is
\* null, equals pattern-of(subject), or shares at least 3 tokens with it.
C15_SilencedIffStored ==
    Filtered =>
        \A t \in mute_call.targets \cap UserTargets :
            t \in mute_call.silence <=> StoreMutes(t)

\* C15 amended: should_silence_for_user(user, sender, subject) is true if
\* and only if its preference query reaches the store and returns an entry
\* of the user whose sender equals the mail's sender (letter case and
\* surrounding whitespace aside) and whose pattern is null, equals
\* pattern-of(subject), or shares at least 3 whitespace-delimited tokens with
\* it once brackets are stripped; an entry with another sender, or with
\* another pattern sharing fewer than 3 tokens, never silences, and neither
\* does any entry when the query fails.
C15_SilencedIffReadAndStored ==
    Filtered =>
        \A t \in mute_call.targets \cap UserTargets :
            t \in mute_call.silence <=> (t \in mute_call.read_ok /\ StoreMutes(t))

\* C15 witness: U1 muted "[N] a b c 123" from "u@n"; a mail "a b c 4567"
\* from " U@N " has another pattern that shares a, b, c and * with the stored
\* one, and silences U1
C15_Witness ==
    /\ Filtered
    /\ user_feedback = { Pref("U1", <<"u", "@", "n">>,
                              <<"[", "N", "]", " ", "a", " ", "b", " ", "c", " ", "*">>) }
    /\ mute_call.event.sender = <<" ", "U", "@", "N", " ">>
    /\ mute_call.event.subject = <<"a", " ", "b", " ", "c", " ", "4", "5", "6", "7">>
    /\ mute_call.pattern = <<"a", " ", "b", " ", "c", " ", "*">>
    /\ "U1" \in mute_call.silence

(***************************************************************************)
(* Claims about the router, checked under SpecRouter                       *)
(***************************************************************************)

\* a get_targets call has returned and its result is on record
Routed == route_call # NoRouteCall

\* the targets the primary mapping holds for the involved addresses
MappingYield ==
    UNION {GetTargetsForGmail(routing_cache, a) : a \in InvolvedEmails(route_call.event)}

\* the targets the static rules hold for the involved addresses
StaticYield == TargetsFromJson(StaticRules, InvolvedEmails(route_call.event))

\* C16 as stated: get_targets consults the static rule set exactly when the
\* primary mapping yields no target for every involved address or the primary
\* lookup fails; when the primary yields a target for some involved address
\* the result is exactly the union of the primary targets, nothing static.
C16_StaticOnlyAsFallback ==
    Routed =>
        /\ route_call.static_consulted <=> (MappingYield = {} \/ route_call.failed)
        /\ MappingYield # {} =>
               (route_call.result = MappingYield /\ ~route_call.static_consulted)

\* C16 amended: with ROUTING_SOURCE "firestore", get_targets consults the
\* static rule set exactly when the primary lookups yield no target for every
\* involved address or a primary lookup fails; when no lookup fails and the
\* primary yields a target for some involved address, the result is exactly
\* the deduplicated union of the primary targets and the static rules are not
\* consulted; after a failed lookup the result is the primary targets
\* collected before the failure together with the static targets.  With any
\* other ROUTING_SOURCE the primary is not queried and the result is the
\* static targets of the involved addresses.
C16_StaticAsFallbackOrBySource ==
    Routed =>
        IF ROUTING_SOURCE = "firestore"
        THEN /\ route_call.static_consulted <=>
                    (route_call.failed \/ MappingYield = {})
             /\ (~route_call.failed /\ MappingYield # {}) =>
                    route_call.result = MappingYield
             /\ route_call.static_consulted =>
                    route_call.result = route_call.primary \cup StaticYield
             /\ route_call.primary \subseteq MappingYield
        ELSE /\ route_call.static_consulted
             /\ route_call.looked_up = {}
             /\ route_call.result = StaticYield

\* C16 witness: the primary maps the mailbox "A " to U1 and U2, the static
\* rules hold a channel for the recipient "c", no lookup failed, and the
\* result is the two users alone
C16_Witness ==
    /\ Routed
    /\ ROUTING_SOURCE = "firestore"
    /\ ~route_call.failed
    /\ route_call.event = RouteEvent(<<"A", " ">>, {<<"c">>})
    /\ StaticYield = {NotificationTarget(<<"C", "1">>, "channel")}
    /\ ~route_call.static_consulted
    /\ route_call.result = { NotificationTarget(<<"U", "1">>, "user"),
                             NotificationTarget(<<"U", "2">>, "user") }

(***************************************************************************)
(* run_batch and a failing event (specification Spec)                      *)
(***************************************************************************)

\* a step in which the future of one event raises
RaiseStep ==
    /\ batch_log.raised \subseteq batch_log'.raised
    /\ batch_log'.raised # batch_log.raised

\* run_batch returns
BatchReturns == batch_pc = "running" /\ batch_pc' = "idle"

\* C17: an exception raised while one event of a batch is processed does not
\* abort any other event: the step that raises removes that event alone from
\* those in flight and adds nothing to the results, so the batch goes on;
\* run_batch returns only when no event is in flight, with status "success";
\* and the counts of a "success" response cover exactly the submitted events
\* that did not raise (processed), sent and ignored being counted among them.
C17_RaiseIsolated ==
    /\ [][RaiseStep =>
            /\ \E id \in DOMAIN workers :
                 /\ batch_log'.raised = batch_log.raised \cup {id}
                 /\ workers' = [i \in DOMAIN workers \ {id} |-> workers[i]]
            /\ results' = results
            /\ batch_pc' = "running"]_vars
    /\ [][BatchReturns => DOMAIN workers = {} /\ batch'.status = "success"]_vars
    /\ [](batch.status = "success" =>
            /\ batch.processed = Cardinality(batch_log.submitted \ batch_log.raised)
            /\ batch.sent <= batch.processed
            /\ batch.ignored <= batch.processed)

\* a batch of two events returned "success" although one of them raised; the
\* other one was processed
C17_Witness ==
    /\ batch.status = "success"
    /\ Cardinality(batch_log.submitted) = 2
    /\ Cardinality(batch_log.raised) = 1
    /\ batch.processed = 1

(***************************************************************************)
(* Interactive actions and their threads (specification SpecSlackFair)     *)
(***************************************************************************)

\* a step of the request handler
HandlerStep == slack_http' # slack_http

\* the handler starts a thread
Dispatch == slack_http.pc = "idle" /\ slack_http'.pc = "started"

Pending(t) == t \in DOMAIN slack_threads /\ slack_threads[t].pc # "done"

Done(t) == t \in DOMAIN slack_threads /\ slack_threads[t].pc = "done"

\* C18: for an interactive action with a response_url the handler itself
\* writes nothing to the mute store, updates no mailbox and posts nothing to
\* the callback; when it goes on with the action it starts a new thread for
\* that work, and from thread.start() on its return is enabled wherever the
\* thread stands, its first step included; no step removes a started thread
\* or takes one back, and every started thread reaches its end.
C18_AckBeforeThreadWork ==
    /\ [][HandlerStep /\ slack_http'.response_url =>
            UNCHANGED <<user_feedback, gmail_read, slack_posts>>]_vars
    /\ [][Dispatch =>
            /\ slack_http'.thread = Len(slack_threads) + 1
            /\ Len(slack_threads') = Len(slack_threads) + 1
            /\ slack_threads'[slack_http'.thread].pc = "start"]_vars
    /\ [](slack_http.pc = "started" => ENABLED SlackReturn)
    /\ [][\A t \in DOMAIN slack_threads :
            /\ t \in DOMAIN slack_threads'
            /\ slack_threads'[t].action_id = slack_threads[t].action_id
            /\ slack_threads[t].pc = "worked" => slack_threads'[t].pc # "start"
            /\ slack_threads[t].pc = "done" => slack_threads'[t].pc = "done"]_vars
    /\ \A t \in 1..MaxInteractions : Pending(t) ~> Done(t)

\* the request of the first thread has been answered and that thread has
\* not taken a step yet
C18_Witness ==
    /\ 1 \in slack_http.acked
    /\ slack_threads[1].pc = "start"
    /\ slack_http.pc = "idle"

(***************************************************************************)
(* Priors from scores (specification SpecPrior)                            *)
(***************************************************************************)

PriorReturned == prior_call.pc = "returned"

\* the scores of the call that count as positive, as negative
Positives ==
    {i \in DOMAIN prior_call.scores : prior_call.scores[i] >= prior_call.positive_threshold}

Negatives == {i \in DOMAIN prior_call.scores : prior_call.scores[i] <= 0}

Counted == Cardinality(Positives) + Cardinality(Negatives)

\* C19: with a score counted as positive when it is at least the threshold,
\* as negative when it is at most 0, and ignored in between, a call in which
\* at least one score is counted returns the pair (positives / (positives +
\* negatives), positives + negatives): samples counts no neutral score and
\* the prior lies between 0 and 1.
C19_PriorIsPositiveShare ==
    PriorReturned /\ Counted > 0 =>
        LET result == prior_call.result
        IN  /\ result.kind = "value"
            /\ result.samples = Counted
            /\ result.prior[1] * Counted = Cardinality(Positives) * result.prior[2]
            /\ result.prior[2] > 0
            /\ 0 <= result.prior[1] /\ result.prior[1] <= result.prior[2]

\* the scores 1.0, 0.5, 0.0, 1.0 with the threshold 0.7: prior 2/3, 3 samples
C19_Witness ==
    /\ PriorReturned
    /\ prior_call.scores = <<100, 50, 0, 100>>
    /\ prior_call.positive_threshold = 70
    /\ prior_call.result = PriorValue(<<2, 3>>, 3)

\* C20: a call in which no score is counted (no score at all, or neutral
\* scores only) returns a value, not an error, and its sample count is 0.
C20_BaselineWhenNothingCounted ==
    PriorReturned /\ Counted = 0 =>
        /\ prior_call.result.kind = "value"
        /\ prior_call.result.samples = 0

(***************************************************************************)
(* Stored priors and their recomputation (specification SpecLearn)         *)
(***************************************************************************)

\* a lookup whose reads reached the store has returned
LookupAnswered == prior_lookup.pc = "returned" /\ prior_lookup.read

\* the document under key has at least minimum samples
EnoughSamples(key, minimum) ==
    key \in DOMAIN prior_lookup.docs /\ prior_lookup.docs[key].samples >= minimum

StoredPrior(key, source) ==
    PriorResult(prior_lookup.docs[key].prior, prior_lookup.docs[key].samples, source)

\* what the lookup returns when the minimum is the one given
GatedPrior(minimum) ==
    IF EnoughSamples(prior_lookup.sender_key, minimum)
    THEN StoredPrior(prior_lookup.sender_key, "sender")
    ELSE IF EnoughSamples(prior_lookup.domain_key, minimum)
    THEN StoredPrior(prior_lookup.domain_key, "domain")
    ELSE NoPrior

\* C21: a lookup returns the sender record when it has at least the
\* configured minimum of samples, otherwise the domain record when that one
\* has, otherwise (None, 0, "none"): its result is the gated one for some
\* minimum between 1 and the largest sample count stored.
C21_PriorGatedBySamples ==
    LookupAnswered => \E minimum \in 1..MaxSamples : prior_lookup.result = GatedPrior(minimum)

JobDone == prior_job.pc = "done"

\* C30: in update_all_priors a sender whose recomputation fails is counted
\* as failed and the loop goes on with the senders left: no sender is
\* attempted twice, at the end every discovered sender has been attempted
\* once, and updated + failed is the number of discovered senders.
C30_EverySenderAttemptedOnce ==
    /\ [][prior_job.pc = "running" /\ prior_job'.failed > prior_job.failed =>
            /\ prior_job'.pc = "running"
            /\ \E x \in prior_job.pending : prior_job'.pending = prior_job.pending \ {x}]_vars
    /\ [](prior_job.pc = "running" =>
            \A x \in prior_job.senders :
                prior_job.attempts[x] = IF x \in prior_job.pending THEN 0 ELSE 1)
    /\ [](JobDone =>
            /\ \A x \in prior_job.senders : prior_job.attempts[x] = 1
            /\ prior_job.updated + prior_job.failed = Cardinality(prior_job.senders))

\* two senders were found; the recomputation failed for one of them and
\* succeeded for the other
C30_Witness ==
    /\ JobDone
    /\ Cardinality(prior_job.senders) = 2
    /\ prior_job.failed = 1
    /\ prior_job.updated = 1

(***************************************************************************)
(* The expiry of a dedup marker (specification SpecExpiry)                 *)
(***************************************************************************)

\* C22: is_processed answers true for (message, target) only while the
\* expiry stored with the marker, 7 days after it was written, has not been
\* reached.
C22_ProcessedUntilExpiry ==
    /\ expiry_check.pc = "returned"
    /\ expiry_check.answer
    /\ expiry_check.id \in DOMAIN expire_at
    => expiry_check.at < expire_at[expiry_check.id]

(***************************************************************************)
(* Mute then unmute (specification SpecTrip)                               *)
(***************************************************************************)

\* the call before last and the last call are op1 and op2 of one user and
\* one subject, both reached the store, and their senders are equal up to
\* letter case and surrounding whitespace
LastTwo(op1, op2) ==
    /\ Len(mute_log) >= 2
    /\ LET a == mute_log[Len(mute_log) - 1]
           b == mute_log[Len(mute_log)]
       IN  /\ a.op = op1 /\ b.op = op2
           /\ a.ok /\ b.ok
           /\ a.user_id = b.user_id /\ a.subject = b.subject
           /\ Strip(Lower(a.sender)) = Strip(Lower(b.sender))

\* C24: after save_user_silent_preference(u, s, subject)
\* should_silence_for_user(u, s, subject) is true; after a following
\* delete_user_silent_preference(u, s', subject) with s' equal to s up to
\* letter case and surrounding whitespace, and no other entry stored for u,
\* should_silence_for_user(u, s, subject) is false.
C24_MuteUnmuteRoundTrip ==
    /\ LastTwo("save", "ask") => mute_log[Len(mute_log)].answer
    /\ LastTwo("save", "delete") =>
          LET a == mute_log[Len(mute_log) - 1]
          IN  {d \in user_feedback : d.user_id = a.user_id}
                  \subseteq {Pref(a.user_id, a.sender, ExtractEmailTypePattern(a.subject))}
              => ~ShouldSilenceForUser(user_feedback, a.user_id, a.sender, a.subject, TRUE)

(***************************************************************************)
(* block-notification (specification SpecBlock)                            *)
(***************************************************************************)

\* the request was answered with success
Blocked == block_call.pc = "returned" /\ block_call.status = 200

\* the mute entry block_notification derives from the event for user u
BlockEntry(u) == Pref(u, block_call.event_dict.from_email, block_call.type_pattern)

\* a batch after the request has handled the event itself, or a mail with
\* the same sender and the same pattern
LaterSameMail ==
    /\ later_call.pc = "returned"
    /\ \/ later_call.event.message_id = block_call.email_id
       \/ /\ Strip(Lower(later_call.event.sender))
                = Strip(Lower(block_call.event_dict.from_email))
          /\ later_call.pattern = block_call.type_pattern

InLock == { c \in CacheCallers : callers[c].pc \in {"load", "build", "stamp"} }

\* the callers that have left _refresh...
Refreshed == { c \in CacheCallers : callers[c].pc = "read" }

\* C26: under every interleaving of callers that find the cache older than
\* its TTL the load runs exactly once for that expiry window: a load runs
\* only while the cache is stale, under the lock, never twice from one
\* last_updated, and a caller that found the cache stale leaves the refresh
\* with last_updated renewed; a caller that took the lock and finds the
\* cache refreshed meanwhile skips the load; a caller that finds the cache
\* fresh never takes the lock.
C26_LoadOncePerExpiry ==
    /\ \A i \in 1..Len(loads) : Stale(loads[i].at, loads[i].prev)
    /\ \A i \in 1..Len(loads), j \in 1..Len(loads) : i # j => loads[i].prev # loads[j].prev
    /\ InLock \subseteq {lock}
    /\ Cardinality(InLock) <= 1
    /\ \A c \in CacheCallers :
          /\ callers[c].pc \in {"wait", "load", "build", "stamp"}
                => Stale(callers[c].now, callers[c].seen)
          /\ callers[c].skipped
                => /\ ~Stale(callers[c].now, last_updated)
                   /\ \A i \in 1..Len(loads) : loads[i].by = c => loads[i].prev < callers[c].seen
          /\ c \in Refreshed /\ Stale(callers[c].now, callers[c].seen)
                => last_updated > callers[c].seen

\* C26 witness: t1 and t2 both found the cache stale; t1 loaded and t2,
\* once it had the lock, skipped the load
C26_Witness ==
    /\ Len(loads) = 1
    /\ loads[1].by = "t1"
    /\ callers["t2"].skipped
    /\ callers["t2"].seen = 0
    /\ callers["t1"].seen = 0
    /\ callers["t2"].pc = "read"

\* the caller's refresh loaded nothing
FailedRefresh(c) ==
    /\ callers[c].pc \in {"stamp", "read", "idle"}
    /\ callers[c].outcome \in {"no_client", "query_error", "read_error"}

\* no load has begun since the one of caller c
LatestLoadBy(c) == Len(loads) > 0 /\ loads[Len(loads)].by = c

\* C27: when a refresh fails (store error or no client) the cache content
\* after it equals the content before it and the caller is answered from
\* that stale content; nobody ever reads a partially rebuilt cache.
C27_FailedRefreshKeepsCache ==
    /\ cache_content.whole
    /\ \A c \in CacheCallers :
          /\ callers[c].answer.whole
          /\ FailedRefresh(c) /\ LatestLoadBy(c) =>
                /\ cache_content = callers[c].before
                /\ callers[c].pc = "idle" => callers[c].answer = callers[c].before

\* C27 witness: the cache holds the first content of the store, the store
\* has moved on, t1's refresh failed and t1 was answered the first content
C27_Witness ==
    /\ FailedRefresh("t1")
    /\ LatestLoadBy("t1")
    /\ callers["t1"].pc = "idle"
    /\ callers["t1"].before = Content(1, TRUE)
    /\ callers["t1"].answer = Content(1, TRUE)
    /\ source_version = 2

(***************************************************************************)
(* Racing processors (specification SpecRace)                              *)
(***************************************************************************)

\* the store after one mark_processed call for the pair, made on the empty
\* store at time T, of which `reached` writes got through
SingleMark(T, reached) ==
    MarkProcessed(backend, EmptyStore, RaceEvent.message_id, RaceTarget, RaceEvent.sender,
                  RaceEvent.subject, T, reached)

\* every answer of is_processed and is_duplicate_by_content, now and for
\* every window, is the same on the two stores
SameAnswers(st1, st2) ==
    /\ \A m \in StoreMessages, t \in Targets :
          IsProcessed(backend, st1, m, t, TRUE) = IsProcessed(backend, st2, m, t, TRUE)
    /\ \A k \in StoreKeys, w \in Windows :
          IsDuplicateByContent(backend, st1, k[1], k[2], k[3], w, now, TRUE)
              = IsDuplicateByContent(backend, st2, k[1], k[2], k[3], w, now, TRUE)

BothMarked == \A p \in Processors : \E i \in 1..Len(race_marks) : race_marks[i].by = p

\* C28: two processors handling the same (message, target) without a lock
\* may both pass the dedup check and both deliver; the pair is delivered at
\* most once per processor, and after both have marked the dedup and
\* throttle state answers as after a single mark_processed.
C28_RaceDuplicatesOnce ==
    /\ Len(race_sent) <= Cardinality(Processors)
    /\ \A i \in 1..Len(race_sent), j \in 1..Len(race_sent) :
          i # j => race_sent[i] # race_sent[j]
    /\ BothMarked =>
          \E i \in 1..Len(race_marks), reached \in Reaches :
              SameAnswers(TheStore, SingleMark(race_marks[i].at, reached))

\* C28 witness: both processors passed the check before either had marked,
\* both delivered, both marks reached the store
C28_Witness ==
    /\ Len(race_sent) = 2
    /\ BothMarked
    /\ \A i \in 1..Len(race_marks) : race_marks[i].reached = 2
    /\ race_marks[1].at < race_marks[2].at

(***************************************************************************)
(* A failed send and the next batch (specifications SpecRetry,             *)
(* SpecRetryFair)                                                          *)
(***************************************************************************)

\* the call passed targets to the delivery client and the send failed
SendFailed(call) == call.pc = "returned" /\ call.new_targets # {} /\ call.delivered = {}

\* this step is the end of a process_single_event call whose send failed
FailedSendStep ==
    /\ later_call.pc = "filter"
    /\ SendFailed(later_call')

\* the mute store holds an entry of user t for the mail
Muted(t) ==
    /\ t \in BlockUsers
    /\ ShouldSilence(GetUserSilentPreferences(user_feedback, t, TRUE),
                     Strip(Lower(RetryMail.sender)), later_call.pattern)

\* C29 as stated: a failed send writes no dedup marker and no throttle
\* record; in the next batch that fetches the same event (and finds it
\* stored) the targets that were selected for delivery are selected again
\* and passed to the delivery client.
C29_FailedSendRetried ==
    later_call.pc = "returned" /\ later_call.existing =>
        later_call.pending \subseteq later_call.new_targets

\* a failed send writes no dedup marker and no throttle record
FailedSendWritesNothing ==
    [][FailedSendStep => TheStore' = TheStore]_vars

\* the next batch: when it finds the stored event, a target of the failed
\* send is selected again and passed to the delivery client if the stored
\* category is notify and no mute entry read in that batch silences it;
\* with a stored category silent no target is selected, whatever override
\* had selected it before
RetriedWhenStoredNotify ==
    later_call.pc = "returned" /\ later_call.existing =>
        /\ later_call.category = NOTIFY =>
              \A t \in later_call.pending :
                  ~(Muted(t) /\ t \in later_call.read_ok) => t \in later_call.new_targets
        /\ later_call.category # NOTIFY => later_call.new_targets = {}

\* the mail is stored with the category notify
StoredNotify ==
    /\ RetryMail.message_id \in DOMAIN event_docs
    /\ event_docs[RetryMail.message_id].final_category = NOTIFY

\* while batches keep fetching the mail and the send succeeds again and
\* again, a target left undelivered by a failed send is delivered in the
\* end, unless the mail is not stored as notify or the target is muted
EventuallyDelivered ==
    \A t \in BlockRoute :
        (SendFailed(later_call) /\ t \in later_call.new_targets)
            ~> (\/ MakeDocId(RetryMail.message_id, t) \in processed
                \/ ~StoredNotify
                \/ Muted(t))

\* C29 amended: a failed send writes no dedup marker and no throttle
\* record and is not repeated within the batch; the next batch that fetches
\* the event and finds it stored selects a target of the failed send again
\* when the stored category is notify and no mute entry silences the
\* target (a target that only an override "notify" had selected is not
\* selected again); such a target is delivered in the end when the send
\* eventually succeeds.
C29_FailedSendRetriedWhenNotify ==
    /\ FailedSendWritesNothing
    /\ []RetriedWhenStoredNotify
    /\ EventuallyDelivered

\* C29 witness: the send to all three targets failed, nothing was marked,
\* and the next batch, finding the event stored as notify, passed the same
\* targets to the delivery client, which delivered
C29_Witness ==
    /\ later_call.pc = "returned"
    /\ later_call.existing
    /\ later_call.pending = BlockRoute
    /\ later_call.new_targets = BlockRoute
    /\ later_call.delivered = BlockRoute
    /\ processed = {MakeDocId("m1", t) : t \in BlockRoute}

(***************************************************************************)
(* Claims about one instance running batch after batch, checked under      *)
(* SpecSeq                                                                 *)
(***************************************************************************)

\* the users the stored mute entries silence for the mail
StoredSilenced == SeqSilenced(RetryMail, seq_call.pattern, UserTargets)

\* the per-target filter has run
Selected == seq_call.pc \in {"deliver", "mark", "returned"}

\* C31: a failing store call never takes a target away from the delivery and
\* never turns a successful send into a failure.  Whatever the outcome of
\* the snapshot write, of the usage increment and of the mute read, the
\* targets selected are at least those selected when every call succeeds;
\* every target that passed the dedup filter is handed to the delivery
\* client; and a call whose send succeeded for all of them returns with
\* notification_sent true whether or not the marks reached the store.
C31_StoreFailuresNeverBlockDelivery ==
    /\ Selected =>
          FinalTargets(SeqRoute, StoredSilenced, seq_call.category, seq_call.overrides)
            \subseteq seq_call.final_targets
    /\ seq_call.pc \in {"mark", "returned"} /\ seq_call.new_targets # {} =>
          seq_call.attempted = seq_call.new_targets
    /\ seq_call.pc = "returned" /\ seq_call.attempted # {}
          /\ seq_call.delivered = seq_call.attempted =>
          seq_call.notification_sent

\* a call in which the mute read, the snapshot write, the usage increment
\* and the mark of U1 all failed, and which delivered to U1 all the same
C31_Witness ==
    /\ seq_call.pc = "returned"
    /\ user_feedback # {}
    /\ ~seq_call.existing /\ seq_call.read_ok = {} /\ ~seq_call.save_ok /\ ~seq_call.inc_ok
    /\ "U1" \in seq_call.delivered
    /\ seq_call.notification_sent
    /\ ~IsProcessed(backend, TheStore, RetryMail.message_id, "U1", TRUE)

\* C32: a target the stored analysis named "silent" is not delivered the
\* mail by a later call that reuses that analysis
C32_OverrideSilentOutlastsReuse ==
    seq_call.existing /\ seq_call.pc \in {"mark", "returned"} =>
        seq_call.delivered \cap suppressed = {}

\* C33: Slack delivers the mail to a target at most once over the batches
C33_DeliveredAtMostOnce == \A t \in SeqRoute : delivery_count[t] <= 1

(***************************************************************************)
(* Claims about the worker threads of a batch, checked under SpecWorkers   *)
(***************************************************************************)

\* C34: with the snapshot store reachable, the judgment service is called
\* at most once for a message id, over the batches and over the threads of
\* one batch
C34_JudgedOncePerMessage == \A m \in DOMAIN judge_calls : judge_calls[m] <= 1

\* C35: the llm_usage a thread reads after its judgment call succeeded is
\* the usage of its own call
C35_UsageIsOwnCall ==
    \A w \in WorkerThreads :
        wk_call[w].pc \in {"read", "done"} /\ ~wk_call[w].existing /\ wk_call[w].call_ok =>
            wk_call[w].llm_usage = UsageOf(w)

(***************************************************************************)
(* Claims about the file store under the worker threads, checked under     *)
(* SpecFileMarks                                                           *)
(***************************************************************************)

\* C36: once the mark_processed calls of both threads have returned,
\* is_processed is true for the pair of each, however the calls interleaved
C36_NoMarkerLost ==
    (\A w \in MarkThreads : fm_pc[w] = "done") =>
        \A w \in MarkThreads : FileIsProcessed(fm_ids, fm_args[w][1], fm_args[w][2])

(***************************************************************************)
(* A claim about the counts of a batch, checked under Spec                 *)
(***************************************************************************)

\* C37: in a batch response with status "success" the events counted as sent
\* and those counted as ignored are distinct events
C37_SentAndIgnoredDisjoint ==
    batch.status = "success" => batch.sent + batch.ignored <= batch.processed

(***************************************************************************)
(* A claim about the governor during a store outage, checked under SpecGov *)
(***************************************************************************)

\* neither read of the control document reached the store
ControlUnread == ~settings_db \/ (~gov_reads[1] /\ ~gov_reads[2])

\* the read of the daily-usage document did not reach the store
UsageUnread == ~settings_db \/ ~gov_reads[3]

\* C38 as stated: whenever one of the two documents cannot be read,
\* is_system_enabled reports enabled
C38_UnreadableMeansEnabled ==
    gov_called /\ (ControlUnread \/ UsageUnread) => gov_result.enabled

\* C38, amended: when neither document can be read, is_system_enabled
\* reports enabled; when one of them cannot be read, its default takes its
\* place (enabled with the default ceilings, or a usage of zero) and the
\* other document still decides
C38_OutageOfBothMeansEnabled ==
    gov_called =>
        /\ ControlUnread /\ UsageUnread =>
              gov_result = [enabled |-> TRUE, reason |-> GovReason("ok", "ok", 0, 0)]
        /\ ControlUnread =>
              gov_result = IsSystemEnabled(settings_db, NoDoc, usage_doc, TRUE, TRUE,
                                           gov_reads[3])
        /\ UsageUnread =>
              gov_result = IsSystemEnabled(settings_db, control_doc, NoUsage, gov_reads[1],
                                           gov_reads[2], TRUE)

\* a call that reached the store for nothing, with the stored state paused
\* and the stored usage at its ceiling, and that reported enabled
C38_Witness ==
    /\ gov_called /\ settings_db /\ gov_reads = <<FALSE, FALSE, FALSE>>
    /\ control_doc.exists /\ ~DictGet(control_doc.data, "enabled", TRUE)
    /\ usage_doc.calls >= DEFAULT_LIMIT_CALLS
    /\ gov_result.enabled

(***************************************************************************)
(* A claim about the follow-up of silent_forever, checked under SpecSlack  *)
(***************************************************************************)

\* C39: the thread of a silent_forever action posts its revised blocks (the
\* "notification blocked" message) to the response_url only when
\* save_user_silent_preference stored the entry
C39_BlockedPostedOnlyWhenStored ==
    \A t \in DOMAIN slack_threads :
        /\ slack_threads[t].action_id = "silent_forever"
        /\ <<t, "blocks">> \in slack_posts
        => slack_threads[t].outcome = "ok"

====
